---- MODULE Spec2Model ----
(***************************************************************************)
(* taxipro-api: verification of Telegram WebApp launch data                *)
(* (verifyInitData) and the shift ledger built on it (the /api/shifts      *)
(* routes and the aggregations), modelled from src/unnamed/part_000 (the   *)
(* revision with owner-scoped CRUD and bulk upsert) and from src/server.js *)
(* (the revision whose by-id routes take no launch data).                  *)
(***************************************************************************)
EXTENDS Integers, Sequences, FiniteSets, TLC

VARIABLES
  shifts,    \* the Shift collection: a set of documents
  nextId,    \* the next _id the store assigns
  clock,     \* Date.now(), in seconds
  botToken,  \* process.env.BOT_TOKEN
  resp,      \* the response of the last request handled
  reqs,      \* concurrent POST /api/shifts requests in flight (store phases)
  bulk,      \* the POST /api/shifts/bulk request in flight (its loop position)
  initData,  \* the launch data handed to verifyInitData
  verdict,   \* what verifyInitData returned for it
  stored,    \* the stored payload handed to the financial engine
  computed,  \* what the engine returned for it
  users,     \* the User collection: one document per Telegram identity
  presence   \* the Presence collection: when each identity was last seen

vars == <<shifts, nextId, clock, botToken, resp, reqs, bulk, initData, verdict, stored, computed, users, presence>>

-----------------------------------------------------------------------------
(* Bounds of the model *)
MaxClock == 2   \* the clock runs over 1..MaxClock in the ledger specifications
MaxId == 2      \* at most MaxId documents are ever inserted
MaxItems == 3   \* longest items[] of a bulk request

(* Program constant: the freshness window of verifyInitData, in seconds *)
Window == 300

-----------------------------------------------------------------------------
(* JavaScript values *)
Undef == "undefined"       \* a missing property / parameter
Null == "null"             \* null
\* (mutant: the empty string counts as a value)
TruthyEmptyString(v) == v \notin {Undef, Null}

Truthy(v) == v \notin {Undef, Null, ""}

TgIds == {1, 2}
CarIds == {"A", "B"}
Dates == {"2024-01-01", "2024-01-02"}

-----------------------------------------------------------------------------
(* verifyInitData.  HMAC-SHA256 is modelled as an ideal keyed function: the *)
(* digest of (key, message) is the pair itself, so two digests are equal    *)
(* exactly when key and message are.                                        *)
Hmac(key, msg) == <<"hmac", key, msg>>

Absent == <<"absent">>          \* URLSearchParams.get(...) === null
Str(s) == <<"str", s>>          \* a non-numeric string value
Num(k) == <<"num", k>>          \* a decimal string whose Number() is k

\* Array.from(urlParams.entries()) after delete('hash'), sorted by key
DataCheckString(ld) == <<ld.auth_date, ld.user>>

\* the hash a holder of token t computes for the fields of ld
Sign(t, ld) == Hmac(Hmac("WebAppData", t), DataCheckString(ld))

\* Number(urlParams.get('auth_date') || 0): [nan, val]
AuthDateNumber(v) ==
  IF v = Absent \/ v = Str("") THEN [nan |-> FALSE, val |-> 0]
  ELSE IF v[1] = "num" THEN [nan |-> FALSE, val |-> v[2]]
  ELSE [nan |-> TRUE, val |-> 0]

\* The text of the user field: absent, malformed, the text null, or an object
\* whose id is missing ("none"), a number ("num") or a string ("str").
UserText(text, idKind, id) == [text |-> text, idKind |-> idKind, id |-> id]
UserAbsent == UserText("absent", "none", 0)

\* JSON.parse(urlParams.get('user')): the decoded value, or a throw
NoUser == [type |-> "none", idKind |-> "none", id |-> 0]
JsonNull == [type |-> "null", idKind |-> "none", id |-> 0]
JsonParse(u) ==
  IF u.text = "absent" THEN [throws |-> FALSE, val |-> JsonNull]  \* JSON.parse(null)
  ELSE IF u.text = "null" THEN [throws |-> FALSE, val |-> JsonNull]
  ELSE IF u.text = "object"
    THEN [throws |-> FALSE,
          val |-> [type |-> "object", idKind |-> u.idKind, id |-> u.id]]
  ELSE [throws |-> TRUE, val |-> NoUser]

Fail(e) == [ok |-> FALSE, error |-> e, user |-> NoUser]

\* (mutant: the window is closed at its end, now - authDate >= 300)
StaleAtWindow(authDate, now) ==
  authDate.nan \/ authDate.val = 0 \/ now - authDate.val >= Window

\* !authDate || now - authDate > 300
Stale(authDate, now) ==
  authDate.nan \/ authDate.val = 0 \/ now - authDate.val > Window

\* (mutant: BOT_TOKEN is looked at before the hash field)
verifyInitDataTokenFirst(ld, token, now) ==
  IF ld.empty THEN Fail("no_init_data")
  ELSE IF token = "" THEN Fail("no_bot_token")
  ELSE IF ld.hash = Absent \/ ld.hash = Str("") THEN Fail("no_hash")
  ELSE IF Sign(token, ld) # ld.hash THEN Fail("bad_hash")
  ELSE IF Stale(AuthDateNumber(ld.auth_date), now) THEN Fail("stale_auth")
  ELSE IF JsonParse(ld.user).throws THEN Fail("bad_user_json")
  ELSE [ok |-> TRUE, error |-> "", user |-> JsonParse(ld.user).val]

verifyInitData(ld, token, now) ==
  IF ld.empty THEN Fail("no_init_data")
  ELSE IF ld.hash = Absent \/ ld.hash = Str("") THEN Fail("no_hash")
  ELSE IF token = "" THEN Fail("no_bot_token")
  ELSE IF Sign(token, ld) # ld.hash THEN Fail("bad_hash")
  ELSE IF Stale(AuthDateNumber(ld.auth_date), now) THEN Fail("stale_auth")
  ELSE IF JsonParse(ld.user).throws THEN Fail("bad_user_json")
  ELSE [ok |-> TRUE, error |-> "", user |-> JsonParse(ld.user).val]

\* requireAuth: the launch data of the request, verified now
requireAuth(ld) == verifyInitData(ld, botToken, clock)

\* Number(check.user.id), as the routes compute tgId.  Reading .id of null
\* throws; a missing or non-numeric id gives NaN, which the store's Number
\* cast rejects (a throw inside the route's try block as well).
TgIdOf(check) ==
  IF check.user.type = "object" /\ check.user.idKind = "num"
  THEN [throws |-> FALSE, val |-> check.user.id]
  ELSE [throws |-> TRUE, val |-> 0]

\* the identity a request is made under: the numeric id of a verified user
Caller(ld) ==
  IF requireAuth(ld).ok /\ ~TgIdOf(requireAuth(ld)).throws
  THEN TgIdOf(requireAuth(ld)).val ELSE 0

\* Launch data: the raw string is empty, or carries hash, auth_date and user
LaunchData(hash, authDate, user) ==
  [empty |-> FALSE, hash |-> hash, auth_date |-> authDate, user |-> user]
EmptyLaunchData ==
  [empty |-> TRUE, hash |-> Absent, auth_date |-> Absent, user |-> UserAbsent]

\* launch data signed by Telegram (the holder of the bot token t)
Signed(t, authDate, user) ==
  LaunchData(Sign(t, LaunchData(Absent, authDate, user)), authDate, user)

-----------------------------------------------------------------------------------------------------------------------------------------------------
(* FinancialEngine.  A payload is an object: a set of <<key, value>> pairs. *)
(* A value is Absent (undefined), JNull, a whole number Num(k), a number    *)
(* of hundredths Dec(h) (15.6 is Dec(1560)), Inf (a number that is not      *)
(* finite), a string Str(s) that is no number, or an object Obj(pairs).     *)
(* Amounts are computed in hundredths; the products of the engine are exact *)
(* when one factor is a whole number, as in the payloads used here.         *)
Cents == 100

JNull == <<"null">>
Dec(h) == <<"dec", h>>
Inf == <<"inf">>
Obj(pairs) == <<"obj", pairs>>

HasKey(p, k) == \E kv \in p : kv[1] = k
Get(p, k) == IF HasKey(p, k) THEN (CHOOSE kv \in p : kv[1] = k)[2] ELSE Absent

\* v.k for a value v that is not null or undefined: a property of an object,
\* undefined on a string or a number
Prop(v, k) == IF v[1] = "obj" THEN Get(v[2], k) ELSE Absent

\* reading a property of null or undefined throws a TypeError
Nullish(v) == v \in {Absent, JNull}

\* (mutant: the default is missing)
NoDefault(v, default) == v

\* v || default
OrDefault(v, default) ==
  IF v \in {Absent, JNull, Num(0), Dec(0), Str("")} THEN default ELSE v

\* n(v): Number.isFinite(Number(v)) ? Number(v) : 0, in hundredths
n(v) ==
  IF v[1] = "num" THEN Cents * v[2]
  ELSE IF v[1] = "dec" THEN v[2]
  ELSE 0

\* Math.round(x) of x hundredths: the nearest whole number, a half goes up
Round(x) == ((x + 50) \div 100) * Cents

\* (mutant: Math.round without Math.max(0, ...))
RoundOnly(v) == Round(n(v))

\* Math.max(0, Math.round(n(v)))
RoundMax0(v) == IF Round(n(v)) > 0 THEN Round(n(v)) ELSE 0

\* what a function of the engine does: it returns val, or it throws
Returned(val) == [throws |-> FALSE, val |-> val]
Threw == [throws |-> TRUE, val |-> 0]

\* { mode: 'none', dayFee: 0, orderFee: 0, percent: 0 }
DefaultPark ==
  Obj({<<"mode", Str("none")>>, <<"dayFee", Num(0)>>, <<"orderFee", Num(0)>>,
       <<"percent", Num(0)>>})

\* (mutant: manual commission is looked at after the mode)
calcCommissionModeFirst(p) ==
  LET s == OrDefault(Get(p, "settings"), Obj({}))
      park == OrDefault(Prop(s, "park"), DefaultPark)
      mode == OrDefault(Prop(park, "mode"), Str("none"))
      hasActivity == n(Get(p, "income")) > 0 \/ n(Get(p, "orders")) > 0
                     \/ n(Get(p, "otherIncome")) > 0 \/ n(Get(p, "tips")) > 0
  IN IF Nullish(s) \/ Nullish(park) THEN Threw
     ELSE IF mode = Str("none") THEN Returned(0)
     ELSE IF ~Nullish(Get(p, "commissionManual"))
       THEN Returned(RoundMax0(Get(p, "commissionManual")))
     ELSE IF mode = Str("day")
       THEN Returned(IF hasActivity THEN n(Prop(park, "dayFee")) ELSE 0)
     ELSE IF mode = Str("order")
       THEN Returned((n(Get(p, "orders")) * n(Prop(park, "orderFee"))) \div Cents)
     ELSE IF mode = Str("percent")
       THEN Returned((n(Get(p, "income")) * n(Prop(park, "percent"))) \div (Cents * 100))
     ELSE Returned(0)

calcCommission(p) ==
  LET s == OrDefault(Get(p, "settings"), Obj({}))
      park == OrDefault(Prop(s, "park"), DefaultPark)
      mode == OrDefault(Prop(park, "mode"), Str("none"))
      hasActivity == n(Get(p, "income")) > 0 \/ n(Get(p, "orders")) > 0
                     \/ n(Get(p, "otherIncome")) > 0 \/ n(Get(p, "tips")) > 0
  IN IF Nullish(s) \/ Nullish(park) THEN Threw
     ELSE IF ~Nullish(Get(p, "commissionManual"))
       THEN Returned(RoundMax0(Get(p, "commissionManual")))
     ELSE IF mode = Str("none") THEN Returned(0)
     ELSE IF mode = Str("day")
       THEN Returned(IF hasActivity THEN n(Prop(park, "dayFee")) ELSE 0)
     ELSE IF mode = Str("order")
       THEN Returned((n(Get(p, "orders")) * n(Prop(park, "orderFee"))) \div Cents)
     ELSE IF mode = Str("percent")
       THEN Returned((n(Get(p, "income")) * n(Prop(park, "percent"))) \div (Cents * 100))
     ELSE Returned(0)

calcTax(p) ==
  LET s == OrDefault(Get(p, "settings"), Obj({}))
      mode == OrDefault(Prop(s, "taxMode"), Str("none"))
  IN IF Nullish(s) THEN Threw
     ELSE IF ~Nullish(Get(p, "taxManual")) THEN Returned(RoundMax0(Get(p, "taxManual")))
     ELSE IF mode = Str("self4") THEN Returned((n(Get(p, "income")) * 4) \div 100)
     ELSE IF mode = Str("ip6") THEN Returned((n(Get(p, "income")) * 6) \div 100)
     ELSE Returned(0)

\* (mutant: the tax is left out of the costs)
calcProfitNoTax(p) ==
  LET gross == n(Get(p, "income")) + n(Get(p, "tips")) + n(Get(p, "otherIncome"))
      commission == calcCommission(p)
      tax == calcTax(p)
      costs == n(Get(p, "rent")) + n(Get(p, "fuel")) + n(Get(p, "otherExpense"))
               + n(Get(p, "fines")) + commission.val
  IN [throws |-> commission.throws \/ tax.throws,
      gross |-> gross, commission |-> commission.val, tax |-> tax.val,
      costs |-> costs, profit |-> gross - costs]

calcProfit(p) ==
  LET gross == n(Get(p, "income")) + n(Get(p, "tips")) + n(Get(p, "otherIncome"))
      commission == calcCommission(p)
      tax == calcTax(p)
      costs == n(Get(p, "rent")) + n(Get(p, "fuel")) + n(Get(p, "otherExpense"))
               + n(Get(p, "fines")) + commission.val + tax.val
  IN [throws |-> commission.throws \/ tax.throws,
      gross |-> gross, commission |-> commission.val, tax |-> tax.val,
      costs |-> costs, profit |-> gross - costs]

\* no function of the engine has been called
NotComputed ==
  [fn |-> "none", throws |-> FALSE, gross |-> 0, commission |-> 0, tax |-> 0,
   costs |-> 0, profit |-> 0]

-----------------------------------------------------------------------------
(* The Shift collection *)
Payloads == { {}, {<<"income", Num(100)>>}, {<<"tips", Num(5)>>} }
NoArg == <<>>                     \* a body / query property that is not sent
Arg(v) == <<v>>                   \* a property sent with value v

\* a document as the schema creates it: carName, carClass default to null
NewDoc(id, tgId, carId, date, now) ==
  [id |-> id, tgId |-> tgId, carId |-> carId, carName |-> Null,
   carClass |-> Null, date |-> date, payload |-> {}, updatedAt |-> now]

\* (mutant: the filter names carName where it means carId)
MatchTripleWrongField(r, tgId, carId, date) ==
  r.tgId = tgId /\ r.carName = carId /\ r.date = date

\* the filter { tgId, carId, date }
MatchTriple(r, tgId, carId, date) ==
  r.tgId = tgId /\ r.carId = carId /\ r.date = date

\* the filter { _id, tgId }
MatchOwned(r, id, tgId) == r.id = id /\ r.tgId = tgId

\* (mutant: a name that is not sent is written as null)
UpsertSetClearsNames(r, payload, carName, carClass, now) ==
  [r EXCEPT !.payload = IF payload = NoArg THEN {} ELSE payload[1],
            !.updatedAt = now,
            !.carName = IF Truthy(carName) THEN carName ELSE Null,
            !.carClass = IF Truthy(carClass) THEN carClass ELSE Null]

\* (mutant: the payload sent is merged into the stored one, key by key)
UpsertSetMerge(r, payload, carName, carClass, now) ==
  [r EXCEPT !.payload = IF payload = NoArg THEN @
                        ELSE payload[1] \cup
                             {kv \in @ : ~\E kw \in payload[1] : kw[1] = kv[1]},
            !.updatedAt = now,
            !.carName = IF Truthy(carName) THEN carName ELSE @,
            !.carClass = IF Truthy(carClass) THEN carClass ELSE @]

\* $set of POST /api/shifts and of each item of POST /api/shifts/bulk
UpsertSet(r, payload, carName, carClass, now) ==
  [r EXCEPT !.payload = IF payload = NoArg THEN {} ELSE payload[1],
            !.updatedAt = now,
            !.carName = IF Truthy(carName) THEN carName ELSE @,
            !.carClass = IF Truthy(carClass) THEN carClass ELSE @]

\* Shift.findOneAndUpdate({tgId, carId, date}, {$set}, {new: true, upsert: true})
\* as one store operation: the store after it and the document it returns
findOneAndUpsert(store, id, tgId, carId, date, payload, carName, carClass, now) ==
  LET m == {r \in store : MatchTriple(r, tgId, carId, date)}
  IN IF m # {}
     THEN LET old == CHOOSE r \in m : TRUE
              new == UpsertSet(old, payload, carName, carClass, now)
          IN [store |-> (store \ {old}) \cup {new}, row |-> new, inserted |-> FALSE]
     ELSE LET new == UpsertSet(NewDoc(id, tgId, carId, date, now),
                               payload, carName, carClass, now)
          IN [store |-> store \cup {new}, row |-> new, inserted |-> TRUE]

\* ISO dates are compared as strings: the character codes of the dates used
Chars(s) ==
  CASE s = "2024-01-01" -> <<50, 48, 50, 52, 45, 48, 49, 45, 48, 49>>
    [] s = "2024-01-02" -> <<50, 48, 50, 52, 45, 48, 49, 45, 48, 50>>
    [] s = "2024-01-03" -> <<50, 48, 50, 52, 45, 48, 49, 45, 48, 51>>
    [] s = "2024-01"    -> <<50, 48, 50, 52, 45, 48, 49>>
    [] OTHER -> <<>>

RECURSIVE SeqLess(_, _)
SeqLess(a, b) ==
  IF b = <<>> THEN FALSE
  ELSE IF a = <<>> THEN TRUE
  ELSE IF Head(a) # Head(b) THEN Head(a) < Head(b)
  ELSE SeqLess(Tail(a), Tail(b))

\* a <= b on strings (JavaScript's and the store's string comparison)
StrLeq(a, b) == a = b \/ SeqLess(Chars(a), Chars(b))

\* the orders in which the store may return the documents of S: any order
\* (no sort), or any order that is ascending in date (sort({date: 1}))
Orders(S) ==
  {q \in [1..Cardinality(S) -> S] : \A i, j \in 1..Cardinality(S) : i # j => q[i] # q[j]}
SortedByDate(S) ==
  {q \in Orders(S) : \A i, j \in 1..Cardinality(S) : i < j => StrLeq(q[i].date, q[j].date)}

-----------------------------------------------------------------------------
(* Responses.  rows is what the store returned to the route (the row sent  *)
(* back, or the rows a listing or a summary was computed from).            *)
NoTotal == [days |-> 0, income |-> 0, profit |-> 0, gross |-> 0]
RespTo(op, caller, status, error, rows) ==
  [op |-> op, caller |-> caller, status |-> status, error |-> error,
   rows |-> rows, results |-> <<>>, total |-> NoTotal, cars |-> {}]
Resp(op, ld, status, error, rows) == RespTo(op, Caller(ld), status, error, rows)
NoResp ==
  [op |-> "none", caller |-> 0, status |-> 0, error |-> "",
   rows |-> <<>>, results |-> <<>>, total |-> NoTotal, cars |-> {}]

\* check.user is null: reading check.user.id throws inside the route's try
UserIsNull(check) == check.user.type # "object"

-----------------------------------------------------------------------------
(* POST /api/shifts *)
Upsert(ld, carId, date, payload, carName, carClass, storeFails) ==
  LET check == requireAuth(ld)
      tg == TgIdOf(check)
      u == findOneAndUpsert(shifts, nextId, tg.val, carId, date, payload,
                            carName, carClass, clock)
  IN /\ IF ~check.ok
          THEN /\ resp' = Resp("upsert", ld, 401, check.error, <<>>)
               /\ UNCHANGED <<shifts, nextId>>
        ELSE IF UserIsNull(check)
          THEN /\ resp' = Resp("upsert", ld, 500, "UPSERT_FAILED", <<>>)
               /\ UNCHANGED <<shifts, nextId>>
        ELSE IF ~Truthy(carId)
          THEN /\ resp' = Resp("upsert", ld, 400, "CAR_ID_REQUIRED", <<>>)
               /\ UNCHANGED <<shifts, nextId>>
        ELSE IF ~Truthy(date)
          THEN /\ resp' = Resp("upsert", ld, 400, "DATE_REQUIRED", <<>>)
               /\ UNCHANGED <<shifts, nextId>>
        ELSE IF tg.throws \/ storeFails
          THEN /\ resp' = Resp("upsert", ld, 500, "UPSERT_FAILED", <<>>)
               /\ UNCHANGED <<shifts, nextId>>
        ELSE /\ u.inserted => nextId <= MaxId
             /\ shifts' = u.store
             /\ nextId' = IF u.inserted THEN nextId + 1 ELSE nextId
             /\ resp' = Resp("upsert", ld, 200, "", <<u.row>>)
     /\ UNCHANGED <<clock, botToken, reqs, bulk, initData, verdict, stored, computed, users, presence>>

(* GET /api/shifts/:id.  An id of 0 stands for a path value that is no     *)
(* ObjectId: the store's cast of it throws.                                *)
GetById(ld, id) ==
  LET check == requireAuth(ld)
      tg == TgIdOf(check)
      m == {r \in shifts : MatchOwned(r, id, tg.val)}
  IN /\ resp' =
          IF ~check.ok THEN Resp("getById", ld, 401, check.error, <<>>)
          ELSE IF tg.throws \/ id = 0
            THEN Resp("getById", ld, 500, "GET_BY_ID_FAILED", <<>>)
          ELSE IF m = {} THEN Resp("getById", ld, 404, "NOT_FOUND", <<>>)
          ELSE Resp("getById", ld, 200, "", <<CHOOSE r \in m : TRUE>>)
     /\ UNCHANGED <<shifts, nextId, clock, botToken, reqs, bulk, initData, verdict, stored, computed, users, presence>>

\* (mutant: the $set writes the three properties as they come, without the
\* guards; a property that was not sent clears the field)
UpdateSetUnguarded(r, payload, carName, carClass, now) ==
  [r EXCEPT !.payload = IF payload = NoArg THEN {} ELSE payload[1],
            !.carName = carName,
            !.carClass = carClass,
            !.updatedAt = now]

\* $set of PUT /api/shifts/:id; ...(payload ? { payload } : {}): NoArg stands
\* for a payload that is not sent or is falsy (null, 0, "", false)
UpdateSet(r, payload, carName, carClass, now) ==
  [r EXCEPT !.payload = IF payload = NoArg THEN @ ELSE payload[1],
            !.carName = IF Truthy(carName) THEN carName ELSE @,
            !.carClass = IF Truthy(carClass) THEN carClass ELSE @,
            !.updatedAt = now]

(* PUT /api/shifts/:id *)
UpdateById(ld, id, payload, carName, carClass) ==
  LET check == requireAuth(ld)
      tg == TgIdOf(check)
      m == {r \in shifts : MatchOwned(r, id, tg.val)}
      old == CHOOSE r \in m : TRUE
      new == UpdateSet(old, payload, carName, carClass, clock)
  IN /\ IF ~check.ok
          THEN resp' = Resp("updateById", ld, 401, check.error, <<>>)
               /\ UNCHANGED shifts
        ELSE IF tg.throws \/ id = 0
          THEN resp' = Resp("updateById", ld, 500, "UPDATE_FAILED", <<>>)
               /\ UNCHANGED shifts
        ELSE IF m = {}
          THEN resp' = Resp("updateById", ld, 404, "NOT_FOUND", <<>>)
               /\ UNCHANGED shifts
        ELSE /\ shifts' = (shifts \ {old}) \cup {new}
             /\ resp' = Resp("updateById", ld, 200, "", <<new>>)
     /\ UNCHANGED <<nextId, clock, botToken, reqs, bulk, initData, verdict, stored, computed, users, presence>>

(* DELETE /api/shifts/:id *)
DeleteById(ld, id) ==
  LET check == requireAuth(ld)
      tg == TgIdOf(check)
      m == {r \in shifts : MatchOwned(r, id, tg.val)}
  IN /\ IF ~check.ok
          THEN resp' = Resp("deleteById", ld, 401, check.error, <<>>)
               /\ UNCHANGED shifts
        ELSE IF tg.throws \/ id = 0
          THEN resp' = Resp("deleteById", ld, 500, "DELETE_FAILED", <<>>)
               /\ UNCHANGED shifts
        ELSE IF m = {}
          THEN resp' = Resp("deleteById", ld, 404, "NOT_FOUND", <<>>)
               /\ UNCHANGED shifts
        ELSE /\ shifts' = shifts \ {CHOOSE r \in m : TRUE}
             /\ resp' = Resp("deleteById", ld, 200, "", <<>>)
     /\ UNCHANGED <<nextId, clock, botToken, reqs, bulk, initData, verdict, stored, computed, users, presence>>

\* new Date(updatedSince): the time of Num(t); any other text is unparsable
SinceGiven(v) == v # Absent /\ v # Str("") /\ v[1] = "num"

\* (mutant: $gte in place of $gt on updatedAt)
MatchQuerySinceInclusive(r, tgId, carId, from, to, updatedSince) ==
  /\ r.tgId = tgId
  /\ Truthy(carId) => r.carId = carId
  /\ Truthy(from) => StrLeq(from, r.date)
  /\ Truthy(to) => StrLeq(r.date, to)
  /\ SinceGiven(updatedSince) => r.updatedAt >= updatedSince[2]

\* the query q of GET /api/shifts and of GET /api/cars/:carId/summary
MatchQuery(r, tgId, carId, from, to, updatedSince) ==
  /\ r.tgId = tgId
  /\ Truthy(carId) => r.carId = carId
  /\ Truthy(from) => StrLeq(from, r.date)
  /\ Truthy(to) => StrLeq(r.date, to)
  /\ SinceGiven(updatedSince) => r.updatedAt > updatedSince[2]

(* GET /api/shifts *)
Find(ld, from, to, carId, updatedSince) ==
  LET check == requireAuth(ld)
      tg == TgIdOf(check)
      m == {r \in shifts : MatchQuery(r, tg.val, carId, from, to, updatedSince)}
  IN /\ IF ~check.ok THEN resp' = Resp("find", ld, 401, check.error, <<>>)
        ELSE IF tg.throws THEN resp' = Resp("find", ld, 500, "GET_FAILED", <<>>)
        ELSE \E q \in SortedByDate(m) : resp' = Resp("find", ld, 200, "", q)
     /\ UNCHANGED <<shifts, nextId, clock, botToken, reqs, bulk, initData, verdict, stored, computed, users, presence>>

\* r.carName || null
OrNull(v) == IF Truthy(v) THEN v ELSE Null

\* total.days += 1; total.income += n(p.income); ... for one row
AddToTotal(t, r) ==
  [days |-> t.days + 1,
   income |-> t.income + n(Get(r.payload, "income")),
   profit |-> t.profit + calcProfit(r.payload).profit,
   gross |-> t.gross + calcProfit(r.payload).gross]

RECURSIVE TotalOf(_)
TotalOf(q) ==
  IF q = <<>> THEN NoTotal
  ELSE AddToTotal(TotalOf(SubSeq(q, 1, Len(q) - 1)), q[Len(q)])

\* (mutant: lastDate is the date of the row scanned last)
AddToCarsLastSeen(cars, r, withLastDate) ==
  LET have == {c \in cars : c.carId = r.carId}
      cur == IF have # {} THEN CHOOSE c \in have : TRUE
             ELSE [carId |-> r.carId, carName |-> OrNull(r.carName),
                   carClass |-> OrNull(r.carClass), lastDate |-> Null,
                   days |-> 0, income |-> 0, profit |-> 0, gross |-> 0]
      new == [cur EXCEPT
                !.days = @ + 1,
                !.income = @ + n(Get(r.payload, "income")),
                !.profit = @ + calcProfit(r.payload).profit,
                !.gross = @ + calcProfit(r.payload).gross,
                !.lastDate = IF ~withLastDate THEN @ ELSE r.date]
  IN (cars \ have) \cup {new}

\* the accumulator of one car after row r: byCar.get(r.carId) || {...}
\* (GET /api/cars keeps lastDate, GET /api/users/:tgId/summary does not)
AddToCars(cars, r, withLastDate) ==
  LET have == {c \in cars : c.carId = r.carId}
      cur == IF have # {} THEN CHOOSE c \in have : TRUE
             ELSE [carId |-> r.carId, carName |-> OrNull(r.carName),
                   carClass |-> OrNull(r.carClass), lastDate |-> Null,
                   days |-> 0, income |-> 0, profit |-> 0, gross |-> 0]
      new == [cur EXCEPT
                !.days = @ + 1,
                !.income = @ + n(Get(r.payload, "income")),
                !.profit = @ + calcProfit(r.payload).profit,
                !.gross = @ + calcProfit(r.payload).gross,
                !.lastDate = IF ~withLastDate THEN @
                             ELSE IF @ = Null \/ ~StrLeq(r.date, @) THEN r.date
                             ELSE @]
  IN (cars \ have) \cup {new}

RECURSIVE CarsOf(_, _)
CarsOf(q, withLastDate) ==
  IF q = <<>> THEN {}
  ELSE AddToCars(CarsOf(SubSeq(q, 1, Len(q) - 1), withLastDate), q[Len(q)],
                 withLastDate)

\* a GET /api/cars that would save each row's computed profit into the row
ByCarPersists(ld) ==
  LET check == requireAuth(ld)
      tg == TgIdOf(check)
      m == {r \in shifts : r.tgId = tg.val}
  IN /\ IF ~check.ok THEN resp' = Resp("byCar", ld, 401, check.error, <<>>)
        ELSE IF tg.throws THEN resp' = Resp("byCar", ld, 500, "CARS_FAILED", <<>>)
        ELSE \E q \in Orders(m) :
               resp' = [Resp("byCar", ld, 200, "", q) EXCEPT !.cars = CarsOf(q, TRUE)]
     /\ shifts' = {IF r \in m
                     THEN [r EXCEPT !.payload =
                             {pr \in @ : pr[1] # "profit"} \cup
                               {<<"profit", Dec(calcProfit(r.payload).profit)>>}]
                     ELSE r : r \in shifts}
     /\ UNCHANGED <<nextId, clock, botToken, reqs, bulk, initData, verdict, stored, computed, users, presence>>

(* GET /api/cars *)
ByCar(ld) ==
  LET check == requireAuth(ld)
      tg == TgIdOf(check)
      m == {r \in shifts : r.tgId = tg.val}
  IN /\ IF ~check.ok THEN resp' = Resp("byCar", ld, 401, check.error, <<>>)
        ELSE IF tg.throws THEN resp' = Resp("byCar", ld, 500, "CARS_FAILED", <<>>)
        ELSE \E q \in Orders(m) :
               resp' = [Resp("byCar", ld, 200, "", q) EXCEPT !.cars = CarsOf(q, TRUE)]
     /\ UNCHANGED <<shifts, nextId, clock, botToken, reqs, bulk, initData, verdict, stored, computed, users, presence>>

(* GET /api/cars/:carId/summary *)
CarSummary(ld, carId, from, to) ==
  LET check == requireAuth(ld)
      tg == TgIdOf(check)
      m == {r \in shifts : MatchQuery(r, tg.val, carId, from, to, Absent)}
  IN /\ IF ~check.ok THEN resp' = Resp("carSummary", ld, 401, check.error, <<>>)
        ELSE IF tg.throws
          THEN resp' = Resp("carSummary", ld, 500, "CAR_SUMMARY_FAILED", <<>>)
        ELSE \E q \in Orders(m) :
               resp' = [Resp("carSummary", ld, 200, "", q) EXCEPT
                          !.total = TotalOf(q),
                          !.cars = IF q = <<>> THEN {[carId |-> carId]}
                                   ELSE {[carId |-> carId,
                                          carName |-> OrNull(q[1].carName),
                                          carClass |-> OrNull(q[1].carClass)]}]
     /\ UNCHANGED <<shifts, nextId, clock, botToken, reqs, bulk, initData, verdict, stored, computed, users, presence>>

\* req.params.tgId === 'me' ? check.user.id : req.params.tgId, then Number():
\* the path value is Str("me"), Num(k) for the text of the number k, or
\* another text, whose Number() is NaN
SummaryTgId(check, param) ==
  IF param = Str("me") THEN TgIdOf(check)
  ELSE IF param[1] = "num" THEN [throws |-> FALSE, val |-> param[2]]
  ELSE [throws |-> TRUE, val |-> 0]

\* const cars = {}: a plain object, so cars[key] also finds what every object
\* inherits from Object.prototype
InheritedKeys ==
  {"constructor", "toString", "valueOf", "hasOwnProperty", "isPrototypeOf",
   "propertyIsEnumerable", "toLocaleString", "__proto__"}

\* if (!cars[r.carId]) cars[r.carId] = {...}; cars[r.carId].days += 1; ...
\* for an inherited key cars[r.carId] is already truthy: no own entry is made
\* and the sums go to the inherited object, which Object.values(cars) leaves out
AddToCarsObject(cars, r) ==
  IF r.carId \in InheritedKeys THEN cars ELSE AddToCars(cars, r, FALSE)

RECURSIVE CarsOfObject(_)
CarsOfObject(q) ==
  IF q = <<>> THEN {}
  ELSE AddToCarsObject(CarsOfObject(SubSeq(q, 1, Len(q) - 1)), q[Len(q)])

(* GET /api/users/:tgId/summary *)
UserSummary(ld, param) ==
  LET check == requireAuth(ld)
      tg == SummaryTgId(check, param)
      m == {r \in shifts : r.tgId = tg.val}
  IN /\ IF ~check.ok THEN resp' = Resp("userSummary", ld, 401, check.error, <<>>)
        ELSE IF (param = Str("me") /\ UserIsNull(check)) \/ tg.throws
          THEN resp' = Resp("userSummary", ld, 500, "SUMMARY_FAILED", <<>>)
        ELSE \E q \in Orders(m) :
               resp' = [Resp("userSummary", ld, 200, "", q) EXCEPT
                          !.total = TotalOf(q),
                          !.cars = {[carId |-> c.carId, carName |-> c.carName,
                                     carClass |-> c.carClass, days |-> c.days,
                                     income |-> c.income, profit |-> c.profit,
                                     gross |-> c.gross] : c \in CarsOfObject(q)}]
     /\ UNCHANGED <<shifts, nextId, clock, botToken, reqs, bulk, initData, verdict, stored, computed, users, presence>>

-----------------------------------------------------------------------------
(* The User and Presence collections.  A User document is its tgId and the *)
(* updatedAt stamp that { timestamps: true } refreshes on every update (the *)
(* profile fields are copied from the launch data and play no part here); a *)
(* Presence document is its tgId and last_seen.  A tgId is Num(k), or JNull *)
(* in a document that has none.                                             *)

\* (mutant: the filter matches no document, so every upsert inserts)
MatchTgIdNever(r, key) == FALSE

\* the filter { tgId: key }
MatchTgId(r, key) == r.tgId = key

\* User.updateOne({ tgId }, { $set: {...} }, { upsert: true })
UpsertUser(coll, key, now) ==
  LET m == {r \in coll : MatchTgId(r, key)}
  IN IF m = {} THEN coll \cup {[tgId |-> key, updatedAt |-> now]}
     ELSE LET old == CHOOSE r \in m : TRUE
          IN (coll \ {old}) \cup {[old EXCEPT !.updatedAt = now]}

\* Presence.updateOne({ tgId }, { $set: { last_seen: new Date() } }, { upsert: true })
UpsertPresence(coll, key, now) ==
  LET m == {r \in coll : MatchTgId(r, key)}
  IN IF m = {} THEN coll \cup {[tgId |-> key, last_seen |-> now]}
     ELSE LET old == CHOOSE r \in m : TRUE
          IN (coll \ {old}) \cup {[old EXCEPT !.last_seen = now]}

\* the filter value { tgId: id } under the schema's Number cast: a number is
\* kept, a text that is no number is a cast error, and undefined (no user
\* object, or one without id) is refused or taken as null, as the store's
\* driver is set up (lenient)
CastTgId(user, lenient) ==
  IF user.type = "object" /\ user.idKind = "num"
    THEN [throws |-> FALSE, val |-> Num(user.id)]
  ELSE IF user.type = "object" /\ user.idKind = "str"
    THEN [throws |-> TRUE, val |-> JNull]
  ELSE [throws |-> ~lenient, val |-> JNull]

\* which store call of a handler fails
StoreFailures == {"none", "first", "second"}

(* POST /api/auth/telegram *)
Auth(ld, lenient, storeFails) ==
  LET check == verifyInitData(ld, botToken, clock)
      key == CastTgId(check.user, lenient)
  IN /\ IF ~check.ok
          THEN /\ resp' = Resp("auth", ld, 403, check.error, <<>>)
               /\ UNCHANGED <<users, presence>>
        ELSE IF UserIsNull(check) \/ key.throws \/ storeFails = "first"
          THEN /\ resp' = Resp("auth", ld, 500, "auth_failed", <<>>)
               /\ UNCHANGED <<users, presence>>
        ELSE IF storeFails = "second"
          THEN /\ resp' = Resp("auth", ld, 500, "auth_failed", <<>>)
               /\ users' = UpsertUser(users, key.val, clock)
               /\ UNCHANGED presence
        ELSE /\ resp' = Resp("auth", ld, 200, "", <<>>)
             /\ users' = UpsertUser(users, key.val, clock)
             /\ presence' = UpsertPresence(presence, key.val, clock)
     /\ UNCHANGED <<shifts, nextId, clock, botToken, reqs, bulk, initData, verdict, stored, computed>>

(* POST /api/ping *)
Ping(ld, lenient, storeFails) ==
  LET check == verifyInitData(ld, botToken, clock)
      key == CastTgId(check.user, lenient)
  IN /\ IF ~check.ok
          THEN /\ resp' = Resp("ping", ld, 403, check.error, <<>>)
               /\ UNCHANGED presence
        ELSE IF key.throws \/ storeFails # "none"
          THEN /\ resp' = Resp("ping", ld, 500, "ping_failed", <<>>)
               /\ UNCHANGED presence
        ELSE /\ resp' = Resp("ping", ld, 200, "", <<>>)
             /\ presence' = UpsertPresence(presence, key.val, clock)
     /\ UNCHANGED <<shifts, nextId, clock, botToken, reqs, bulk, initData, verdict, stored, computed, users>>

-----------------------------------------------------------------------------
(* The by-id routes of src/server.js: no launch data is read (ld is what   *)
(* the client sends along, unused), the filter is the _id alone.           *)
ServerGetById(ld, id) ==
  LET m == {r \in shifts : r.id = id}
  IN /\ resp' =
          IF id = 0 THEN RespTo("getById", 0, 500, "GET_BY_ID_FAILED", <<>>)
          ELSE IF m = {} THEN RespTo("getById", 0, 404, "NOT_FOUND", <<>>)
          ELSE RespTo("getById", 0, 200, "", <<CHOOSE r \in m : TRUE>>)
     /\ UNCHANGED <<shifts, nextId, clock, botToken, reqs, bulk, initData, verdict, stored, computed, users, presence>>

ServerUpdateById(ld, id, payload, carName, carClass) ==
  LET m == {r \in shifts : r.id = id}
      old == CHOOSE r \in m : TRUE
      new == UpdateSet(old, payload, carName, carClass, clock)
  IN /\ IF id = 0
          THEN resp' = RespTo("updateById", 0, 500, "UPDATE_FAILED", <<>>)
               /\ UNCHANGED shifts
        ELSE IF m = {}
          THEN resp' = RespTo("updateById", 0, 404, "NOT_FOUND", <<>>)
               /\ UNCHANGED shifts
        ELSE /\ shifts' = (shifts \ {old}) \cup {new}
             /\ resp' = RespTo("updateById", 0, 200, "", <<new>>)
     /\ UNCHANGED <<nextId, clock, botToken, reqs, bulk, initData, verdict, stored, computed, users, presence>>

ServerDeleteById(ld, id) ==
  LET m == {r \in shifts : r.id = id}
  IN /\ IF id = 0
          THEN resp' = RespTo("deleteById", 0, 500, "DELETE_FAILED", <<>>)
               /\ UNCHANGED shifts
        ELSE IF m = {}
          THEN resp' = RespTo("deleteById", 0, 404, "NOT_FOUND", <<>>)
               /\ UNCHANGED shifts
        ELSE /\ shifts' = shifts \ {CHOOSE r \in m : TRUE}
             /\ resp' = RespTo("deleteById", 0, 200, "", <<>>)
     /\ UNCHANGED <<nextId, clock, botToken, reqs, bulk, initData, verdict, stored, computed, users, presence>>

\* time passes
Tick ==
  /\ clock < MaxClock
  /\ clock' = clock + 1
  /\ UNCHANGED <<shifts, nextId, botToken, resp, reqs, bulk, initData, verdict, stored, computed, users, presence>>

-----------------------------------------------------------------------------
(* POST /api/shifts/bulk.  The route awaits the store once per item, so    *)
(* other requests run between two items: one step per item.                *)
(* before is the collection as the request found it (kept where a         *)
(* specification follows it), crashed says that the process died inside   *)
(* the loop (idx items had been processed).                                *)
NoBulk == [active |-> FALSE, caller |-> 0, tg |-> [throws |-> FALSE, val |-> 0],
           items |-> <<>>, idx |-> 0, results |-> <<>>, before |-> {},
           crashed |-> FALSE]

Item(carId, date, payload, carName, carClass) ==
  [carId |-> carId, date |-> date, payload |-> payload,
   carName |-> carName, carClass |-> carClass]
NullItem == Item(Undef, Undef, NoArg, Undef, Undef)     \* it || {}

ItemFailed(idx, error) ==
  [idx |-> idx, ok |-> FALSE, error |-> error, id |-> 0, carId |-> Undef,
   date |-> Undef, updatedAt |-> 0]
ItemOk(idx, row) ==
  [idx |-> idx, ok |-> TRUE, error |-> "", id |-> row.id, carId |-> row.carId,
   date |-> row.date, updatedAt |-> row.updatedAt]

\* req.body.items: NoArg when the body has none, Arg(q) for the array q,
\* NotAnArray for a value that is no array (an object, a string, a number)
NotAnArray == <<"not", "an array">>

\* (mutant: a value that is no array is taken as a list of one item)
ItemsOfAnyValue(items) ==
  IF items = NoArg THEN <<>>
  ELSE IF Len(items) = 1 THEN items[1]
  ELSE <<NullItem>>

\* Array.isArray(req.body?.items) ? req.body.items : []
ItemsOf(items) == IF Len(items) = 1 THEN items[1] ELSE <<>>

\* the request up to the loop: requireAuth, tgId, the items check; before
\* is what the request is remembered to have found in the collection
BulkStartFrom(ld, items, before) ==
  LET check == requireAuth(ld)
  IN /\ ~bulk.active
     /\ IF ~check.ok
          THEN resp' = Resp("bulkUpsert", ld, 401, check.error, <<>>)
               /\ UNCHANGED bulk
        ELSE IF UserIsNull(check)
          THEN resp' = Resp("bulkUpsert", ld, 500, "BULK_FAILED", <<>>)
               /\ UNCHANGED bulk
        ELSE IF Len(ItemsOf(items)) = 0
          THEN resp' = Resp("bulkUpsert", ld, 400, "EMPTY_ITEMS", <<>>)
               /\ UNCHANGED bulk
        ELSE /\ bulk' = [active |-> TRUE, caller |-> Caller(ld),
                         tg |-> TgIdOf(check), items |-> ItemsOf(items),
                         idx |-> 0, results |-> <<>>, before |-> before,
                         crashed |-> FALSE]
             /\ UNCHANGED resp
     /\ UNCHANGED <<shifts, nextId, clock, botToken, reqs, initData, verdict, stored, computed, users, presence>>

BulkStart(ld, items) == BulkStartFrom(ld, items, {})

\* (mutant: the check of carId and date is missing, the store refuses)
BulkTurnNoCheck(st, tg, it, idx, now, storeFails) ==
  LET u == findOneAndUpsert(st.store, st.nextId, tg.val, it.carId, it.date,
                            it.payload, it.carName, it.carClass, now)
  IN IF ~Truthy(it.carId) \/ ~Truthy(it.date) \/ tg.throws \/ storeFails
       THEN [store |-> st.store, nextId |-> st.nextId,
             result |-> ItemFailed(idx, "UPSERT_FAILED")]
     ELSE [store |-> u.store,
           nextId |-> IF u.inserted THEN st.nextId + 1 ELSE st.nextId,
           result |-> ItemOk(idx, u.row)]

\* the body of the loop for item it at index idx, on the collection and id
\* counter st: what they become and the result pushed
BulkTurn(st, tg, it, idx, now, storeFails) ==
  LET u == findOneAndUpsert(st.store, st.nextId, tg.val, it.carId, it.date,
                            it.payload, it.carName, it.carClass, now)
  IN IF ~Truthy(it.carId) \/ ~Truthy(it.date)
       THEN [store |-> st.store, nextId |-> st.nextId,
             result |-> ItemFailed(idx, "CAR_ID_AND_DATE_REQUIRED")]
     ELSE IF tg.throws \/ storeFails
       THEN [store |-> st.store, nextId |-> st.nextId,
             result |-> ItemFailed(idx, "UPSERT_FAILED")]
     ELSE [store |-> u.store,
           nextId |-> IF u.inserted THEN st.nextId + 1 ELSE st.nextId,
           result |-> ItemOk(idx, u.row)]

\* (mutant: the loop takes the items from the last to the first)
BulkItemLastFirst(storeFails) ==
  LET t == BulkTurn([store |-> shifts, nextId |-> nextId], bulk.tg,
                    bulk.items[Len(bulk.items) - bulk.idx], bulk.idx, clock, storeFails)
      results == Append(bulk.results, t.result)
  IN /\ bulk.active
     /\ t.nextId # nextId => nextId <= MaxId
     /\ shifts' = t.store
     /\ nextId' = t.nextId
     /\ IF bulk.idx + 1 = Len(bulk.items)
          THEN /\ bulk' = NoBulk
               /\ resp' = [RespTo("bulkUpsert", bulk.caller, 200, "", <<>>)
                             EXCEPT !.results = results]
          ELSE /\ bulk' = [bulk EXCEPT !.idx = @ + 1, !.results = results]
               /\ UNCHANGED resp
     /\ UNCHANGED <<clock, botToken, reqs, initData, verdict, stored, computed, users, presence>>

\* one turn of the loop, for items[idx]; after the last item the results
\* are sent
BulkItem(storeFails) ==
  LET t == BulkTurn([store |-> shifts, nextId |-> nextId], bulk.tg,
                    bulk.items[bulk.idx + 1], bulk.idx, clock, storeFails)
      results == Append(bulk.results, t.result)
  IN /\ bulk.active
     /\ t.nextId # nextId => nextId <= MaxId
     /\ shifts' = t.store
     /\ nextId' = t.nextId
     /\ IF bulk.idx + 1 = Len(bulk.items)
          THEN /\ bulk' = NoBulk
               /\ resp' = [RespTo("bulkUpsert", bulk.caller, 200, "", <<>>)
                             EXCEPT !.results = results]
          ELSE /\ bulk' = [bulk EXCEPT !.idx = @ + 1, !.results = results]
               /\ UNCHANGED resp
     /\ UNCHANGED <<clock, botToken, reqs, initData, verdict, stored, computed, users, presence>>

\* the process dies between two turns of the loop: no response is sent,
\* what the store holds stays
Crash ==
  /\ bulk.active
  /\ bulk' = [bulk EXCEPT !.active = FALSE, !.crashed = TRUE]
  /\ UNCHANGED <<shifts, nextId, clock, botToken, resp, reqs, initData, verdict,
                 stored, computed, users, presence>>

\* the whole loop over items with no store failure and no other request
\* in between, at time now
RECURSIVE ApplyBatch(_, _, _, _)
ApplyBatch(st, tg, items, now) ==
  IF items = <<>> THEN st
  ELSE LET before == ApplyBatch(st, tg, SubSeq(items, 1, Len(items) - 1), now)
           t == BulkTurn(before, tg, items[Len(items)], Len(items) - 1, now, FALSE)
       IN [store |-> t.store, nextId |-> t.nextId]

-----------------------------------------------------------------------------
(* Two POST /api/shifts requests in flight.  The store runs                *)
(* findOneAndUpdate(..., {upsert: true}) of a request in two phases, the   *)
(* match of the filter and the write; the unique index on (tgId, carId,    *)
(* date) rejects the insert of a second document for a triple, and the     *)
(* store then runs the operation again.                                    *)
Slots == {1, 2}
Idle == [pc |-> "idle", tgId |-> 0, carId |-> "", date |-> "", payload |-> NoArg,
         carName |-> Undef, carClass |-> Undef, found |-> 0, retries |-> 0,
         status |-> 0, row |-> <<>>]

\* (mutant: the index is declared without { unique: true })
IndexNotUnique(store, doc) == TRUE

\* Shift.schema.index({ tgId: 1, carId: 1, date: 1 }, { unique: true })
UniqueIndexAllows(store, doc) ==
  ~\E r \in store : MatchTriple(r, doc.tgId, doc.carId, doc.date)

\* the route up to the store call
RaceStart(s, ld, carId, date, payload, carName, carClass) ==
  LET check == requireAuth(ld)
  IN /\ reqs[s].pc = "idle"
     /\ check.ok /\ ~TgIdOf(check).throws /\ Truthy(carId) /\ Truthy(date)
     /\ reqs' = [reqs EXCEPT ![s] =
                   [Idle EXCEPT !.pc = "match", !.tgId = TgIdOf(check).val,
                                !.carId = carId, !.date = date,
                                !.payload = payload, !.carName = carName,
                                !.carClass = carClass]]
     /\ UNCHANGED <<shifts, nextId, clock, botToken, resp, bulk, initData, verdict, stored, computed, users, presence>>

\* the store evaluates the filter { tgId, carId, date }
RaceMatch(s) ==
  LET rq == reqs[s]
      m == {r \in shifts : MatchTriple(r, rq.tgId, rq.carId, rq.date)}
  IN /\ rq.pc = "match"
     /\ reqs' = [reqs EXCEPT ![s].pc = "write",
                              ![s].found = IF m = {} THEN 0
                                           ELSE (CHOOSE r \in m : TRUE).id]
     /\ UNCHANGED <<shifts, nextId, clock, botToken, resp, bulk, initData, verdict, stored, computed, users, presence>>

\* the store updates the document matched, or inserts a new one
RaceWrite(s) ==
  LET rq == reqs[s]
      m == {r \in shifts : r.id = rq.found}
      old == CHOOSE r \in m : TRUE
      upd == UpsertSet(old, rq.payload, rq.carName, rq.carClass, clock)
      ins == UpsertSet(NewDoc(nextId, rq.tgId, rq.carId, rq.date, clock),
                       rq.payload, rq.carName, rq.carClass, clock)
  IN /\ rq.pc = "write"
     /\ IF m # {}
          THEN /\ shifts' = (shifts \ {old}) \cup {upd}
               /\ reqs' = [reqs EXCEPT ![s].pc = "done", ![s].status = 200,
                                        ![s].row = <<upd>>]
               /\ UNCHANGED nextId
        ELSE IF UniqueIndexAllows(shifts, ins)
          THEN /\ nextId <= MaxId
               /\ shifts' = shifts \cup {ins}
               /\ nextId' = nextId + 1
               /\ reqs' = [reqs EXCEPT ![s].pc = "done", ![s].status = 200,
                                        ![s].row = <<ins>>]
        ELSE /\ reqs' = [reqs EXCEPT ![s].pc = "match", ![s].found = 0,
                                        ![s].retries = @ + 1]
             /\ UNCHANGED <<shifts, nextId>>
     /\ UNCHANGED <<clock, botToken, resp, bulk, initData, verdict, stored, computed, users, presence>>

-----------------------------------------------------------------------------
(* The requests of the ledger specifications *)
Token == "bot-token"
UserOf(tgId) == UserText("object", "num", tgId)
Good(tgId) == Signed(Token, Num(1), UserOf(tgId))     \* verified launch data
Forged == Signed("other-token", Num(1), UserOf(1))    \* fails with bad_hash
NullUser == Signed(Token, Num(1), UserText("null", "none", 0))
NoCheck == Fail("pending")

Launches == {Good(t) : t \in TgIds} \cup {Forged}
PayloadArgs == {NoArg} \cup {Arg(p) : p \in Payloads}
IdArgs == 0..MaxId
SummaryParams == {Str("me"), Str("abc")} \cup {Num(t) : t \in TgIds}

Init ==
  /\ shifts = {}
  /\ nextId = 1
  /\ clock = 1
  /\ botToken = Token
  /\ resp = NoResp
  /\ reqs = [s \in Slots |-> Idle]
  /\ bulk = NoBulk
  /\ initData = EmptyLaunchData
  /\ verdict = NoCheck
  /\ stored = {}
  /\ computed = NotComputed
  /\ users = {}
  /\ presence = {}

\* the client takes the response; the next request is then handled
Receive ==
  /\ resp # NoResp
  /\ resp' = NoResp
  /\ UNCHANGED <<shifts, nextId, clock, botToken, reqs, bulk, initData, verdict, stored, computed, users, presence>>

(* Spec: the owner-scoped routes on documents of two identities and two cars *)
Requests ==
  \/ \E ld \in Launches, carId \in CarIds :
       Upsert(ld, carId, "2024-01-01", Arg({<<"income", Num(100)>>}), Undef, Undef, FALSE)
  \/ \E ld \in Launches, id \in IdArgs : GetById(ld, id)
  \/ \E ld \in Launches, id \in IdArgs, payload \in {NoArg, Arg({<<"tips", Num(5)>>})} :
       UpdateById(ld, id, payload, Undef, Undef)
  \/ \E ld \in Launches, id \in IdArgs : DeleteById(ld, id)
  \/ \E ld \in Launches, carId \in {Undef, "A"} : Find(ld, Undef, Undef, carId, Absent)
  \/ \E ld \in Launches : ByCar(ld)
  \/ \E ld \in Launches, carId \in CarIds : CarSummary(ld, carId, Undef, Undef)
  \/ \E ld \in Launches, param \in SummaryParams : UserSummary(ld, param)

Next ==
  \/ resp = NoResp /\ Requests
  \/ Receive
  \/ Tick

Spec == Init /\ [][Next]_vars

(* SpecCars: the per-car aggregations over rows of several cars and dates *)
CarsCarIds == {"A", "B", "constructor"}
CarsPayloads ==
  {Arg({<<"income", Num(100)>>}),
   Arg({<<"income", Num(200)>>, <<"tips", Num(5)>>, <<"fuel", Num(30)>>})}

NextCars ==
  \/ /\ resp = NoResp
     /\ \/ \E carId \in CarsCarIds, date \in Dates, payload \in CarsPayloads :
             Upsert(Good(1), carId, date, payload, Undef, Undef, FALSE)
        \/ Upsert(Good(2), "A", "2024-01-02", Arg({<<"income", Num(100)>>}),
                  Undef, Undef, FALSE)
        \/ ByCar(Good(1))
        \/ UserSummary(Good(1), Str("me"))
  \/ Receive

SpecCars == Init /\ [][NextCars]_vars

(* SpecAuth: POST /api/auth/telegram and POST /api/ping *)
IdLess == Signed(Token, Num(1), UserText("object", "none", 0))
AuthLaunches == {Good(1), Good(2), Forged, NullUser, IdLess}

NextAuth ==
  \/ /\ resp = NoResp
     /\ \/ \E ld \in AuthLaunches, lenient \in BOOLEAN, storeFails \in StoreFailures :
             Auth(ld, lenient, storeFails)
        \/ \E ld \in AuthLaunches, lenient \in BOOLEAN, storeFails \in StoreFailures :
             Ping(ld, lenient, storeFails)
  \/ Receive
  \/ Tick

SpecAuth == Init /\ [][NextAuth]_vars

(* SpecUpdate: PUT /api/shifts/:id with every shape of patch, on the rows *)
(* of two identities                                                       *)
Patch(payload, carName, carClass) ==
  [payload |-> payload, carName |-> carName, carClass |-> carClass]
Patches ==
  {Patch(NoArg, Undef, Undef),
   Patch(Arg({<<"tips", Num(5)>>}), Undef, Undef),
   Patch(NoArg, "Rio", Undef),
   Patch(NoArg, "", "econom"),
   Patch(Arg({<<"tips", Num(5)>>}), "Rio", "econom")}

NextUpdate ==
  \/ /\ resp = NoResp
     /\ \/ Upsert(Good(1), "A", "2024-01-01", Arg({<<"income", Num(100)>>}),
                  "Kia", Undef, FALSE)
        \/ Upsert(Good(2), "A", "2024-01-01", Arg({<<"income", Num(100)>>}),
                  Undef, Undef, FALSE)
        \/ \E ld \in {Good(1), Forged}, id \in IdArgs, p \in Patches :
             UpdateById(ld, id, p.payload, p.carName, p.carClass)
  \/ Receive
  \/ Tick

SpecUpdate == Init /\ [][NextUpdate]_vars

(* SpecWrites: every route that writes the Shift collection *)
BulkItems ==
  {Item("A", "2024-01-01", Arg({<<"tips", Num(5)>>}), Undef, Undef),
   Item("B", "2024-01-01", NoArg, Undef, Undef)}
WriteBatches ==
  {NoArg} \cup {Arg(<<x>>) : x \in BulkItems}
          \cup {Arg(<<x, y>>) : x \in BulkItems, y \in BulkItems}

WriteRequests ==
  \/ \E ld \in Launches, carId \in CarIds :
       Upsert(ld, carId, "2024-01-01", Arg({<<"income", Num(100)>>}), Undef, Undef, FALSE)
  \/ \E ld \in Launches, items \in WriteBatches : BulkStart(ld, items)
  \/ \E storeFails \in BOOLEAN : BulkItem(storeFails)
  \/ \E ld \in Launches, id \in IdArgs, payload \in {NoArg, Arg({<<"tips", Num(5)>>})} :
       UpdateById(ld, id, payload, Undef, Undef)
  \/ \E ld \in Launches, id \in IdArgs : DeleteById(ld, id)

NextWrites ==
  \/ resp = NoResp /\ WriteRequests
  \/ Receive

SpecWrites == Init /\ [][NextWrites]_vars

(* SpecUpsert: POST /api/shifts with every kind of body, for one identity *)
UpsertBodies ==
  {<<Arg({<<"income", Num(100)>>}), "Kia", "econom">>,
   <<Arg({<<"tips", Num(5)>>}), Undef, "">>,
   <<NoArg, "", Undef>>,
   <<Arg({<<"income", Num(100)>>}), "Rio", Undef>>}

UpsertRequests ==
  \E ld \in {Good(1), Forged, NullUser}, carId \in CarIds \cup {Undef, ""},
     date \in {"2024-01-01", Undef, ""}, b \in UpsertBodies, storeFails \in BOOLEAN :
    Upsert(ld, carId, date, b[1], b[2], b[3], storeFails)

NextUpsert ==
  \/ resp = NoResp /\ UpsertRequests
  \/ Receive
  \/ Tick

SpecUpsert == Init /\ [][NextUpsert]_vars

(* SpecRace: two POST /api/shifts requests whose store phases interleave *)
NextRace ==
  \/ \E s \in Slots, ld \in {Good(1), Good(2)}, carId \in CarIds,
        b \in {<<Arg({<<"income", Num(100)>>}), "Kia", Undef>>,
                <<Arg({<<"tips", Num(5)>>}), Undef, Undef>>,
                <<NoArg, Undef, Undef>>} :
       RaceStart(s, ld, carId, "2024-01-01", b[1], b[2], b[3])
  \/ \E s \in Slots : RaceMatch(s)
  \/ \E s \in Slots : RaceWrite(s)
  \/ Tick

SpecRace == Init /\ [][NextRace]_vars

(* SpecBulk: POST /api/shifts/bulk for one identity, items of every kind *)
ItemPool ==
  {Item("A", "2024-01-01", Arg({<<"income", Num(100)>>}), "Kia", Undef),
   Item("A", "2024-01-01", Arg({<<"tips", Num(5)>>}), Undef, Undef),
   Item("B", "2024-01-01", NoArg, "", "econom"),
   Item(Undef, "2024-01-01", Arg({<<"tips", Num(5)>>}), Undef, Undef),
   Item("B", "", NoArg, Undef, Undef)}
RECURSIVE Lists(_, _)
Lists(S, k) ==
  IF k = 0 THEN {<<>>}
  ELSE Lists(S, k - 1) \cup {Append(q, x) : q \in Lists(S, k - 1), x \in S}
Batches == Lists(ItemPool, MaxItems)
BatchArgs == {NoArg, NotAnArray} \cup {Arg(q) : q \in Batches}

NextBulk ==
  \/ resp = NoResp /\ \E ld \in {Good(1), Forged}, items \in BatchArgs :
                        BulkStart(ld, items)
  \/ resp = NoResp /\ \E storeFails \in BOOLEAN : BulkItem(storeFails)
  \/ Receive
  \/ Tick

SpecBulk == Init /\ [][NextBulk]_vars

(* SpecVerify: verifyInitData on launch data of every shape, at a given   *)
(* time and with a given BOT_TOKEN                                         *)
VerifyNows == {1000, 2000}
AuthDates ==
  {Absent, Str(""), Str("soon"), Num(0), Num(-5)}
    \cup {Num(t - Window - 1) : t \in VerifyNows}
    \cup {Num(t - Window) : t \in VerifyNows}
    \cup {Num(t) : t \in VerifyNows}
    \cup {Num(t + Window + 1) : t \in VerifyNows}
UserTexts ==
  {UserAbsent, UserText("malformed", "none", 0), UserText("null", "none", 0),
   UserText("object", "none", 0), UserText("object", "str", 0), UserOf(1)}
\* launch data with no hash, an empty hash, the hash Telegram computes, the
\* hash computed with another token, the hash of other fields
VerifyInputs ==
  {EmptyLaunchData}
    \cup {LaunchData(h, a, u) : h \in {Absent, Str("")}, a \in {Num(1000)}, u \in UserTexts}
    \cup {Signed(t, a, u) : t \in {Token, "other-token"}, a \in AuthDates, u \in UserTexts}
    \cup {LaunchData(Sign(Token, LaunchData(Absent, a, UserOf(2))), a, UserOf(1)) :
             a \in AuthDates}

InitVerify ==
  /\ shifts = {}
  /\ nextId = 1
  /\ clock \in VerifyNows
  /\ botToken \in {Token, ""}
  /\ resp = NoResp
  /\ reqs = [s \in Slots |-> Idle]
  /\ bulk = NoBulk
  /\ initData \in VerifyInputs
  /\ verdict = NoCheck
  /\ stored = {}
  /\ computed = NotComputed
  /\ users = {}
  /\ presence = {}

Verify ==
  /\ verdict = NoCheck
  /\ verdict' = verifyInitData(initData, botToken, clock)
  /\ UNCHANGED <<shifts, nextId, clock, botToken, resp, reqs, bulk, initData,
                 stored, computed, users, presence>>

NextVerify == Verify

SpecVerify == InitVerify /\ [][NextVerify]_vars

(* SpecNames: POST /api/shifts and POST /api/shifts/bulk of one identity,  *)
(* with carName and carClass sent, empty, null or missing                  *)
NameBodies ==
  {<<Arg({<<"income", Num(100)>>}), "Kia", "econom">>,
   <<NoArg, Undef, "">>,
   <<NoArg, "", Null>>,
   <<NoArg, "Rio", Undef>>}
NameItems == {Item(carId, "2024-01-01", b[1], b[2], b[3]) : carId \in CarIds, b \in NameBodies}
NameBatches == {<<x>> : x \in NameItems} \cup {<<x, y>> : x \in NameItems, y \in NameItems}

NextNames ==
  \/ resp = NoResp /\ \E carId \in CarIds, b \in NameBodies :
                        Upsert(Good(1), carId, "2024-01-01", b[1], b[2], b[3], FALSE)
  \/ resp = NoResp /\ \E items \in NameBatches : BulkStart(Good(1), Arg(items))
  \/ resp = NoResp /\ BulkItem(FALSE)
  \/ Receive

SpecNames == Init /\ [][NextNames]_vars

(* SpecRequired: POST /api/shifts of one identity with carId and date     *)
(* sent, empty or missing                                                  *)
RequiredBodies ==
  {<<Arg({<<"income", Num(100)>>}), "Kia">>, <<NoArg, Undef>>}
MaybeCarIds == CarIds \cup {Undef, ""}
MaybeDates == {"2024-01-01", Undef, ""}

NextRequired ==
  \/ resp = NoResp /\ \E carId \in MaybeCarIds, date \in MaybeDates,
                          b \in RequiredBodies, storeFails \in BOOLEAN :
                        Upsert(Good(1), carId, date, b[1], b[2], Undef, storeFails)
  \/ Receive
  \/ Tick

SpecRequired == Init /\ [][NextRequired]_vars

(* SpecFind: GET /api/shifts of identity 1 with every kind of filter, on  *)
(* documents of two identities written at different times                  *)
FindFroms == {"", "2024-01-02"}
FindTos == {Undef, "2024-01-01", "2024-01"}
FindCarIds == {Undef, "A"}
FindSinces == {Absent, Str("yesterday"), Num(1)}

NextFind ==
  \/ resp = NoResp /\ \E k \in {<<"A", "2024-01-01">>, <<"A", "2024-01-02">>,
                                  <<"B", "2024-01-01">>} :
                        Upsert(Good(1), k[1], k[2], NoArg, Undef, Undef, FALSE)
  \/ resp = NoResp /\ Upsert(Good(2), "A", "2024-01-02", NoArg, Undef, Undef, FALSE)
  \/ resp = NoResp /\ \E from \in FindFroms, to \in FindTos, carId \in FindCarIds,
                          updatedSince \in FindSinces :
                        Find(Good(1), from, to, carId, updatedSince)
  \/ Receive
  \/ Tick

SpecFind == Init /\ [][NextFind]_vars

(* SpecEngine: calcCommission, calcTax and calcProfit on a stored payload  *)
(* of every shape                                                          *)
Field(k, v) == IF v = Absent THEN {} ELSE {<<k, v>>}
Parks ==
  {Absent, JNull, Str("park"), Obj({}),
   Obj({<<"mode", Str("none")>>, <<"dayFee", Num(500)>>}),
   Obj({<<"mode", Str("day")>>, <<"dayFee", Num(500)>>}),
   Obj({<<"mode", Str("day")>>, <<"dayFee", Str("abc")>>}),
   Obj({<<"mode", Str("order")>>, <<"orderFee", Num(10)>>}),
   Obj({<<"mode", Str("percent")>>, <<"percent", Num(20)>>}),
   Obj({<<"mode", Str("weekly")>>, <<"dayFee", Num(500)>>}),
   Obj({<<"mode", Num(1)>>, <<"percent", Num(20)>>})}
TaxModes == {Absent, JNull, Str("self4"), Str("ip6"), Str("none"), Str("osn")}
SettingsValues ==
  {Absent, JNull, Str("settings"), Num(1)}
    \cup {Obj(Field("park", park) \cup Field("taxMode", taxMode)) :
             park \in Parks, taxMode \in TaxModes}
Incomes == {Absent, Num(0), Num(1000), Str("abc"), Inf}
Manuals == {Absent, JNull, Dec(1560), Dec(1550), Num(-5), Str("abc")}
Expenses == {{<<"rent", JNull>>}, {<<"rent", Num(200)>>, <<"fuel", Num(100)>>}}
EnginePayloads ==
  {Field("income", income) \cup Field("orders", orders) \cup Field("tips", tips)
     \cup expenses \cup Field("settings", settings)
     \cup Field("commissionManual", commissionManual)
     \cup Field("taxManual", taxManual) :
     income \in Incomes, orders \in {Absent, Num(3)}, tips \in {Absent, Num(50)},
     expenses \in Expenses, settings \in SettingsValues,
     commissionManual \in Manuals, taxManual \in {Absent, Dec(1560), Num(-5)}}

InitEngine ==
  /\ shifts = {}
  /\ nextId = 1
  /\ clock = 1
  /\ botToken = Token
  /\ resp = NoResp
  /\ reqs = [s \in Slots |-> Idle]
  /\ bulk = NoBulk
  /\ initData = EmptyLaunchData
  /\ verdict = NoCheck
  /\ stored \in EnginePayloads
  /\ computed = NotComputed
  /\ users = {}
  /\ presence = {}

Commission ==
  /\ computed = NotComputed
  /\ computed' = [NotComputed EXCEPT !.fn = "commission",
                                     !.throws = calcCommission(stored).throws,
                                     !.commission = calcCommission(stored).val]
  /\ UNCHANGED <<shifts, nextId, clock, botToken, resp, reqs, bulk, initData,
                 verdict, stored, users, presence>>

Tax ==
  /\ computed = NotComputed
  /\ computed' = [NotComputed EXCEPT !.fn = "tax",
                                     !.throws = calcTax(stored).throws,
                                     !.tax = calcTax(stored).val]
  /\ UNCHANGED <<shifts, nextId, clock, botToken, resp, reqs, bulk, initData,
                 verdict, stored, users, presence>>

Profit ==
  /\ computed = NotComputed
  /\ computed' = [fn |-> "profit"] @@ calcProfit(stored)
  /\ UNCHANGED <<shifts, nextId, clock, botToken, resp, reqs, bulk, initData,
                 verdict, stored, users, presence>>

NextEngine == Commission \/ Tax \/ Profit

SpecEngine == InitEngine /\ [][NextEngine]_vars

(* SpecCrash: POST /api/shifts/bulk of one identity, the process dying     *)
(* at any point of the loop                                                *)
CrashPool ==
  {Item("A", "2024-01-01", Arg({<<"income", Num(100)>>}), "Kia", Undef),
   Item("A", "2024-01-01", Arg({<<"tips", Num(5)>>}), Undef, Undef),
   Item(Undef, "2024-01-01", Arg({<<"tips", Num(5)>>}), Undef, Undef),
   Item("B", "2024-01-01", NoArg, "", "econom")}
CrashBatches == Lists(CrashPool, MaxItems)

NextCrash ==
  \/ resp = NoResp /\ \E items \in CrashBatches :
                        BulkStartFrom(Good(1), Arg(items), shifts)
  \/ resp = NoResp /\ BulkItem(FALSE)
  \/ Crash
  \/ Receive

SpecCrash == Init /\ [][NextCrash]_vars

(* SpecServer: the routes as src/server.js has them *)
ServerRequests ==
  \/ \E ld \in Launches, carId \in CarIds :
       Upsert(ld, carId, "2024-01-01", Arg({<<"income", Num(100)>>}), Undef, Undef, FALSE)
  \/ \E ld \in Launches, id \in IdArgs : ServerGetById(ld, id)
  \/ \E ld \in Launches, id \in IdArgs, payload \in {NoArg, Arg({<<"tips", Num(5)>>})} :
       ServerUpdateById(ld, id, payload, Undef, Undef)
  \/ \E ld \in Launches, id \in IdArgs : ServerDeleteById(ld, id)
  \/ \E ld \in Launches, carId \in {Undef, "A"} : Find(ld, Undef, Undef, carId, Absent)
  \/ \E ld \in Launches : ByCar(ld)
  \/ \E ld \in Launches, param \in SummaryParams : UserSummary(ld, param)

NextServer ==
  \/ resp = NoResp /\ ServerRequests
  \/ Receive
  \/ Tick

SpecServer == Init /\ [][NextServer]_vars

-----------------------------------------------------------------------------
(* Claims *)

\* identity b asks for the id of a document that another identity owns
OthersId(ld, id) ==
  /\ Caller(ld) # 0
  /\ \E r \in shifts : r.id = id /\ r.tgId # Caller(ld)

\* C2: getById, updateById and deleteById by identity B on the id of a
\* document owned by identity A answer 404 NOT_FOUND, the answer for an id
\* that does not exist, and leave the collection as it was.
C2_OthersIdIsNotFound ==
  [][\A ld \in Launches, id \in IdArgs :
       (/\ OthersId(ld, id)
        /\ \/ GetById(ld, id) \/ ServerGetById(ld, id)
           \/ DeleteById(ld, id) \/ ServerDeleteById(ld, id)
           \/ \E payload \in PayloadArgs :
                \/ UpdateById(ld, id, payload, Undef, Undef)
                \/ ServerUpdateById(ld, id, payload, Undef, Undef))
       => /\ resp'.status = 404 /\ resp'.error = "NOT_FOUND" /\ resp'.rows = <<>>
          /\ shifts' = shifts]_vars

ReadOps == {"find", "getById", "byCar", "carSummary", "userSummary"}

\* C3: every read operation answers from documents of the caller only: no
\* document of another identity is returned or counted into a summary.
C3_ReadsOnlyOwnRows ==
  (resp.op \in ReadOps /\ resp.status = 200 /\ resp.caller # 0)
    => \A i \in 1..Len(resp.rows) : resp.rows[i].tgId = resp.caller

\* C1: the collection holds at most one document for each triple
\* (tgId, carId, date), whatever upsert, bulkUpsert, updateById and
\* deleteById calls were made.
C1_TripleUnique ==
  \A r1, r2 \in shifts :
    (r1.tgId = r2.tgId /\ r1.carId = r2.carId /\ r1.date = r2.date) => r1 = r2

\* two documents of one identity, written by upsert and by bulkUpsert
C1_Witness ==
  /\ Cardinality(shifts) = 2
  /\ \E r1, r2 \in shifts : r1 # r2 /\ r1.tgId = r2.tgId
  /\ resp.op = "bulkUpsert" /\ resp.status = 200
  /\ \E i \in 1..Len(resp.results) : resp.results[i].ok

\* C4: an upsert for a triple that already has a document leaves exactly
\* one document for the triple, with the id it had, whose payload is the
\* payload of this call wholesale (the empty map when none is sent) and
\* whose updatedAt is the time of this call.
C4_SecondUpsertReplaces ==
  [][\A carId \in CarIds, b \in UpsertBodies, old \in shifts :
       (/\ old.tgId = 1 /\ old.carId = carId /\ old.date = "2024-01-01"
        /\ Upsert(Good(1), carId, "2024-01-01", b[1], b[2], b[3], FALSE))
       => \E new \in shifts' :
            /\ new.id = old.id
            /\ new.payload = (IF b[1] = NoArg THEN {} ELSE b[1][1])
            /\ new.updatedAt = clock
            /\ {r \in shifts' : r.tgId = 1 /\ r.carId = carId
                                  /\ r.date = "2024-01-01"} = {new}
            /\ shifts' \ {new} = shifts \ {old}
            /\ resp'.status = 200 /\ resp'.rows = <<new>>]_vars

\* a second upsert has replaced {income: 100} (sent with carName Kia) by
\* {tips: 5}, at a later time than the first
C4_Witness ==
  /\ resp.op = "upsert" /\ resp.status = 200
  /\ resp.rows[1].carName = "Kia"
  /\ resp.rows[1].payload = {<<"tips", Num(5)>>}
  /\ resp.rows[1].updatedAt > 1
  /\ resp.rows[1] \in shifts

SameTriple(a, b) == a.tgId = b.tgId /\ a.carId = b.carId /\ a.date = b.date

ItemInvalid(it) == it.carId \in {Undef, Null, ""} \/ it.date \in {Undef, Null, ""}

\* C6: every turn of the bulk loop pushes exactly one result, at the
\* item's index: CAR_ID_AND_DATE_REQUIRED for an item without carId or
\* date, UPSERT_FAILED when the store fails (the collection is then as it
\* was), otherwise ok with the id, carId, date and updatedAt of the document
\* written for the item; the loop goes on to the next item whatever the
\* result, and the response carries one result per item.
C6_BulkIsolatesItems ==
  [][(bulk.active /\ bulk' # bulk) =>
       LET i == bulk.idx
           it == bulk.items[i + 1]
           res == IF bulk'.active THEN bulk'.results ELSE resp'.results
       IN /\ Len(res) = i + 1
          /\ SubSeq(res, 1, i) = bulk.results
          /\ res[i + 1].idx = i
          /\ ItemInvalid(it) =>
               /\ res[i + 1] = [idx |-> i, ok |-> FALSE,
                                error |-> "CAR_ID_AND_DATE_REQUIRED", id |-> 0,
                                carId |-> Undef, date |-> Undef, updatedAt |-> 0]
               /\ shifts' = shifts
          /\ ~ItemInvalid(it) =>
               \/ /\ res[i + 1] = [idx |-> i, ok |-> FALSE,
                                    error |-> "UPSERT_FAILED", id |-> 0,
                                    carId |-> Undef, date |-> Undef, updatedAt |-> 0]
                  /\ shifts' = shifts
               \/ \E r \in shifts' :
                    /\ r.tgId = bulk.caller /\ r.carId = it.carId /\ r.date = it.date
                    /\ r.payload = (IF it.payload = NoArg THEN {} ELSE it.payload[1])
                    /\ r.updatedAt = clock
                    /\ res[i + 1] = [idx |-> i, ok |-> TRUE, error |-> "", id |-> r.id,
                                     carId |-> it.carId, date |-> it.date,
                                     updatedAt |-> clock]
          /\ IF i + 1 < Len(bulk.items)
               THEN bulk'.active /\ bulk'.idx = i + 1 /\ bulk'.items = bulk.items
               ELSE ~bulk'.active /\ resp'.op = "bulkUpsert" /\ resp'.status = 200]_vars

\* three items answered: the first applied, the second without carId or
\* date, the third applied although the second was refused
C6_Witness ==
  /\ resp.op = "bulkUpsert" /\ resp.status = 200 /\ Len(resp.results) = 3
  /\ resp.results[1].ok
  /\ resp.results[2].error = "CAR_ID_AND_DATE_REQUIRED"
  /\ resp.results[3].ok /\ resp.results[3].id # resp.results[1].id
  /\ Cardinality(shifts) = 2

\* what a document is apart from updatedAt
Content(store) ==
  {[id |-> r.id, tgId |-> r.tgId, carId |-> r.carId, date |-> r.date,
    payload |-> r.payload, carName |-> r.carName, carClass |-> r.carClass] :
     r \in store}

\* C7: from any state of the collection in which no request is under way,
\* a batch applied a second time (at the same or a later time) by the same
\* identity leaves the documents, their ids and their carId, date, payload,
\* carName and carClass as the first application left them.
C7_ResubmitIdempotent ==
  (~bulk.active /\ resp = NoResp) =>
    \A items \in Batches, later \in clock..MaxClock :
      LET tg == [throws |-> FALSE, val |-> 1]
          once == ApplyBatch([store |-> shifts, nextId |-> nextId], tg, items, clock)
          twice == ApplyBatch(once, tg, items, later)
      IN Content(twice.store) = Content(once.store) /\ twice.nextId = once.nextId

\* a batch of two items has been answered whose documents were in the
\* collection before it (the second item's document has the smaller id),
\* and applying the batch again would rewrite these two documents
C7_Witness ==
  /\ resp.op = "bulkUpsert" /\ resp.status = 200 /\ Len(resp.results) = 2
  /\ resp.results[1].ok /\ resp.results[2].ok
  /\ resp.results[2].id < resp.results[1].id
  /\ {r.id : r \in shifts} = {resp.results[1].id, resp.results[2].id}
  /\ \A r \in shifts : r.updatedAt = clock /\ clock > 1

\* the launch data carries the hash that BOT_TOKEN gives for its fields
HashPasses ==
  /\ ~initData.empty /\ botToken # ""
  /\ initData.hash = Hmac(Hmac("WebAppData", botToken),
                          <<initData.auth_date, initData.user>>)
Verified == verdict # NoCheck
UserParses == initData.user.text \in {"absent", "null", "object"}

\* C8: launch data that passes the hash check is accepted when
\* now - auth_date = 300, rejected with stale_auth when it is 301, and
\* rejected with stale_auth when auth_date is missing or zero.
C8_FreshnessBoundary ==
  (Verified /\ HashPasses) =>
    /\ (initData.auth_date = Num(clock - 300) /\ UserParses) => verdict.ok
    /\ initData.auth_date = Num(clock - 300) => verdict.error # "stale_auth"
    /\ initData.auth_date = Num(clock - 301) => verdict.error = "stale_auth"
    /\ initData.auth_date \in {Absent, Str(""), Num(0)} => verdict.error = "stale_auth"

\* launch data of identity 1 that is exactly 300 seconds old was accepted
C8_Witness ==
  /\ Verified /\ HashPasses
  /\ initData.auth_date = Num(clock - 300)
  /\ verdict.ok /\ verdict.user.id = 1

\* C9: launch data whose auth_date is more than 300 seconds away from now,
\* in the past or in the future, is rejected with stale_auth.
C9_RejectsFutureAuthDate ==
  (Verified /\ HashPasses /\ initData.auth_date[1] = "num"
   /\ (clock - initData.auth_date[2] > 300 \/ initData.auth_date[2] - clock > 300))
    => verdict.error = "stale_auth"

\* C10: when verifyInitData returns ok, the user it returns is an object
\* with a numeric id.
C10_OkUserHasNumericId ==
  (Verified /\ verdict.ok) =>
    verdict.user.type = "object" /\ verdict.user.idKind = "num"

\* the error the checks of verify give in their fixed order, read off the
\* launch data, the bot secret and the time: "" when no check fails
FirstFailing(ld, token, now) ==
  LET a == ld.auth_date
      authFails == \/ a \in {Absent, Str(""), Num(0)}
                   \/ a[1] = "str"
                   \/ a[1] = "num" /\ now - a[2] > 300
  IN IF ld.empty THEN "no_init_data"
     ELSE IF ld.hash \in {Absent, Str("")} THEN "no_hash"
     ELSE IF token = "" THEN "no_bot_token"
     ELSE IF ld.hash # Sign(token, ld) THEN "bad_hash"
     ELSE IF authFails THEN "stale_auth"
     ELSE IF ld.user.text = "malformed" THEN "bad_user_json"
     ELSE ""

\* C11: verify reports exactly one error kind, that of the first failing
\* check in the order: empty raw string (no_init_data), hash field absent or
\* empty (no_hash), empty bot secret (no_bot_token), computed HMAC differs
\* from hash (bad_hash), auth_date missing, zero, not a number or too old
\* (stale_auth), user field not parseable JSON (bad_user_json); it returns
\* ok exactly when none of these checks fails.
C11_FirstFailingCheck ==
  verdict # NoCheck =>
    /\ verdict.error = FirstFailing(initData, botToken, clock)
    /\ verdict.ok = (FirstFailing(initData, botToken, clock) = "")

\* launch data on which three checks fail at once (hash of another token,
\* no auth_date, malformed user) has been reported as bad_hash
C11_Witness ==
  /\ verdict # NoCheck
  /\ initData = Signed("other-token", Absent, UserText("malformed", "none", 0))
  /\ botToken = Token
  /\ verdict.error = "bad_hash"

\* the step has left, for the triple, a document whose carName (carClass) is
\* the value sent when that is non-empty, and otherwise what the triple's
\* document had before the step, null when there was none
NamesWritten(tgId, carId, date, carName, carClass) ==
  LET olds == {r \in shifts : r.tgId = tgId /\ r.carId = carId /\ r.date = date}
      was(f) == IF olds = {} THEN Null ELSE (CHOOSE r \in olds : TRUE)[f]
  IN \E new \in shifts' :
       /\ new.tgId = tgId /\ new.carId = carId /\ new.date = date
       /\ new.carName = (IF carName \in {Undef, Null, ""} THEN was("carName") ELSE carName)
       /\ new.carClass = (IF carClass \in {Undef, Null, ""} THEN was("carClass") ELSE carClass)

\* C12: upsert, and each item of bulkUpsert, writes carName (carClass) only
\* when a non-empty value is sent for it; otherwise the stored value stays
\* exactly as it was, and on a newly created document it is null.
C12_NamesOnlyWhenSupplied ==
  [][/\ \A carId \in CarIds, b \in NameBodies :
          Upsert(Good(1), carId, "2024-01-01", b[1], b[2], b[3], FALSE)
            => NamesWritten(1, carId, "2024-01-01", b[2], b[3])
     /\ (bulk.active /\ BulkItem(FALSE))
          => LET it == bulk.items[bulk.idx + 1]
             IN NamesWritten(bulk.caller, it.carId, it.date, it.carName, it.carClass)]_vars

\* a bulk request has been answered after which a document still carries
\* the names Kia and econom sent with {income: 100}, under a payload that a
\* later write without names has replaced by the empty map, next to a
\* document created without a class, whose carClass is null
C12_Witness ==
  /\ resp.op = "bulkUpsert" /\ resp.status = 200
  /\ \E r \in shifts : r.carName = "Kia" /\ r.carClass = "econom" /\ r.payload = {}
  /\ \E r \in shifts : r.carName = "Rio" /\ r.carClass = Null

\* C13: upsert with an empty or missing carId answers CAR_ID_REQUIRED
\* (whatever the date is), with a carId but an empty or missing date
\* DATE_REQUIRED; in both cases the collection is left as it was.
C13_RequiresCarIdThenDate ==
  [][\A carId \in MaybeCarIds, date \in MaybeDates,
        b \in RequiredBodies, storeFails \in BOOLEAN :
       Upsert(Good(1), carId, date, b[1], b[2], Undef, storeFails) =>
         /\ carId \in {Undef, ""} =>
              /\ resp'.status = 400 /\ resp'.error = "CAR_ID_REQUIRED"
              /\ resp'.rows = <<>> /\ shifts' = shifts /\ nextId' = nextId
         /\ (carId \notin {Undef, ""} /\ date \in {Undef, ""}) =>
              /\ resp'.status = 400 /\ resp'.error = "DATE_REQUIRED"
              /\ resp'.rows = <<>> /\ shifts' = shifts /\ nextId' = nextId]_vars

\* an upsert without a date was refused while the collection held documents
C13_Witness ==
  /\ resp.op = "upsert" /\ resp.status = 400 /\ resp.error = "DATE_REQUIRED"
  /\ resp.caller = 1
  /\ shifts # {}

\* C14: bulkUpsert with an empty list, with no items or with items that is
\* not a list answers EMPTY_ITEMS, starts no loop and leaves the collection
\* as it was.
C14_EmptyItems ==
  [][\A items \in {NoArg, NotAnArray, Arg(<<>>)} :
       BulkStart(Good(1), items) =>
         /\ resp'.op = "bulkUpsert" /\ resp'.status = 400
         /\ resp'.error = "EMPTY_ITEMS" /\ resp'.results = <<>>
         /\ ~bulk'.active
         /\ shifts' = shifts /\ nextId' = nextId]_vars

\* a bulk request was refused for its items while the collection held the
\* documents of an earlier batch
C14_Witness ==
  /\ resp.op = "bulkUpsert" /\ resp.status = 400 /\ resp.error = "EMPTY_ITEMS"
  /\ resp.caller = 1
  /\ Cardinality(shifts) = 2

\* the documents of tgId that satisfy every filter supplied
Wanted(tgId, from, to, carId, updatedSince) ==
  {r \in shifts :
     /\ r.tgId = tgId
     /\ from \notin {Undef, ""} => StrLeq(from, r.date)
     /\ to \notin {Undef, ""} => StrLeq(r.date, to)
     /\ carId \notin {Undef, ""} => r.carId = carId
     /\ updatedSince[1] = "num" => r.updatedAt > updatedSince[2]}

\* C15: find returns exactly the caller's documents that satisfy every
\* filter supplied: date >= from and date <= to (inclusive, as strings),
\* carId equal to the one given, updatedAt strictly after updatedSince (an
\* unparsable updatedSince is ignored); each once, in ascending date.
C15_FindFilters ==
  [][\A from \in FindFroms, to \in FindTos, carId \in FindCarIds,
        updatedSince \in FindSinces :
       Find(Good(1), from, to, carId, updatedSince) =>
         /\ resp'.status = 200
         /\ {resp'.rows[i] : i \in 1..Len(resp'.rows)}
              = Wanted(1, from, to, carId, updatedSince)
         /\ Len(resp'.rows) = Cardinality(Wanted(1, from, to, carId, updatedSince))
         /\ \A i, j \in 1..Len(resp'.rows) :
              i < j => StrLeq(resp'.rows[i].date, resp'.rows[j].date)]_vars

\* a listing of one document out of the caller's two was answered: the
\* other was left out by a filter
C15_Witness ==
  /\ resp.op = "find" /\ resp.status = 200 /\ resp.caller = 1
  /\ Len(resp.rows) = 1
  /\ Cardinality({r \in shifts : r.tgId = 1}) = 2

\* settings.park of the stored payload when settings and park are objects,
\* and the empty object otherwise
ParkOf(p) ==
  LET st == Get(p, "settings")
  IN IF st[1] = "obj" /\ Get(st[2], "park")[1] = "obj"
     THEN Get(st[2], "park")[2] ELSE {}

\* settings.park.mode when it is a string, "" when there is none
ParkModeOf(p) ==
  IF Get(ParkOf(p), "mode")[1] = "str" THEN Get(ParkOf(p), "mode")[2] ELSE ""

ManualSet(p, k) == Get(p, k) \notin {Absent, JNull}
Max0(x) == IF x > 0 THEN x ELSE 0
AnyActivity(p) ==
  \E k \in {"income", "orders", "otherIncome", "tips"} : n(Get(p, k)) > 0

\* C16: commission(payload) is max(0, round(commissionManual)) whenever
\* commissionManual is set, whatever settings.park.mode is; otherwise 0 for
\* mode none, dayFee for mode day when any of income, orders, otherIncome,
\* tips is greater than zero and 0 when none is, orders * orderFee for mode
\* order, income * percent / 100 for mode percent, and 0 for a missing or
\* unknown mode.
C16_Commission ==
  computed.fn = "commission" =>
    /\ ~computed.throws
    /\ computed.commission =
         (IF ManualSet(stored, "commissionManual")
            THEN Max0(Round(n(Get(stored, "commissionManual"))))
          ELSE IF ParkModeOf(stored) = "day"
            THEN (IF AnyActivity(stored) THEN n(Get(ParkOf(stored), "dayFee")) ELSE 0)
          ELSE IF ParkModeOf(stored) = "order"
            THEN (n(Get(stored, "orders")) * n(Get(ParkOf(stored), "orderFee"))) \div Cents
          ELSE IF ParkModeOf(stored) = "percent"
            THEN (n(Get(stored, "income")) * n(Get(ParkOf(stored), "percent")))
                   \div (Cents * 100)
          ELSE 0)

\* the commission of a payload with income 1000 under mode percent, 20%,
\* and commissionManual 15.6 was computed: 16, not 200
C16_Witness ==
  /\ computed.fn = "commission"
  /\ Get(stored, "commissionManual") = Dec(1560)
  /\ ParkModeOf(stored) = "percent"
  /\ Get(stored, "income") = Num(1000)
  /\ computed.commission = 16 * Cents

\* settings.taxMode when settings is an object and taxMode a string
TaxModeOf(p) ==
  LET st == Get(p, "settings")
  IN IF st[1] = "obj" /\ Get(st[2], "taxMode")[1] = "str"
     THEN Get(st[2], "taxMode")[2] ELSE ""

\* C17: tax(payload) is max(0, round(taxManual)) whenever taxManual is set,
\* whatever settings.taxMode is; otherwise income * 0.04 for taxMode self4,
\* income * 0.06 for ip6, and 0 for none, a missing or any other taxMode.
C17_Tax ==
  computed.fn = "tax" =>
    /\ ~computed.throws
    /\ computed.tax =
         (IF ManualSet(stored, "taxManual")
            THEN Max0(Round(n(Get(stored, "taxManual"))))
          ELSE IF TaxModeOf(stored) = "self4" THEN (4 * n(Get(stored, "income"))) \div 100
          ELSE IF TaxModeOf(stored) = "ip6" THEN (6 * n(Get(stored, "income"))) \div 100
          ELSE 0)

\* the tax of a payload with income 1000 under self4 and taxManual 15.6 was
\* computed: 16, not 40
C17_Witness ==
  /\ computed.fn = "tax"
  /\ TaxModeOf(stored) = "self4" /\ Get(stored, "income") = Num(1000)
  /\ Get(stored, "taxManual") = Dec(1560)
  /\ computed.tax = 16 * Cents

\* C18: profit(payload) returns gross = income + tips + otherIncome,
\* commission = commission(payload), tax = tax(payload), costs = rent + fuel
\* + otherExpense + fines + commission + tax, and profit = gross - costs.
C18_Profit ==
  computed.fn = "profit" =>
    LET amount(k) == n(Get(stored, k))
    IN /\ computed.gross = amount("income") + amount("tips") + amount("otherIncome")
       /\ computed.commission = calcCommission(stored).val
       /\ computed.tax = calcTax(stored).val
       /\ computed.costs = amount("rent") + amount("fuel") + amount("otherExpense")
                            + amount("fines") + computed.commission + computed.tax
       /\ computed.profit = computed.gross - computed.costs

\* the profit of income 1000, tips 50, rent 200, fuel 100 with commission
\* 200 (20 percent) and tax 40 (self4) was computed: gross 1050, costs 540,
\* profit 510
C18_Witness ==
  /\ computed.fn = "profit"
  /\ Get(stored, "income") = Num(1000) /\ Get(stored, "tips") = Num(50)
  /\ Get(stored, "rent") = Num(200) /\ Get(stored, "fuel") = Num(100)
  /\ computed.commission = 200 * Cents /\ computed.tax = 40 * Cents
  /\ computed.gross = 1050 * Cents /\ computed.costs = 540 * Cents
  /\ computed.profit = 510 * Cents

IsNumber(v) == v[1] \in {"num", "dec"}
IsObject(v) == v[1] = "obj"
\* what field k adds to a sum: its amount when it is a finite number
Contribution(p, k) == IF IsNumber(Get(p, k)) THEN n(Get(p, k)) ELSE 0

Entry(r) ==
  [tgId |-> r.tgId, carId |-> r.carId, date |-> r.date, payload |-> r.payload,
   carName |-> r.carName, carClass |-> r.carClass]

\* the entries that the valid items of a list leave, applied in array order
\* to the entries L
RECURSIVE Applied(_, _, _)
Applied(L, tgId, items) ==
  IF items = <<>> THEN L
  ELSE LET prev == Applied(L, tgId, SubSeq(items, 1, Len(items) - 1))
           it == items[Len(items)]
           olds == {e \in prev : e.tgId = tgId /\ e.carId = it.carId /\ e.date = it.date}
           was(f) == IF olds = {} THEN Null ELSE (CHOOSE e \in olds : TRUE)[f]
           kept(f) == IF it[f] \in {Undef, Null, ""} THEN was(f) ELSE it[f]
       IN IF ItemInvalid(it) THEN prev
          ELSE (prev \ olds) \cup
               {[tgId |-> tgId, carId |-> it.carId, date |-> it.date,
                 payload |-> IF it.payload = NoArg THEN {} ELSE it.payload[1],
                 carName |-> kept("carName"), carClass |-> kept("carClass")]}

\* C20: at whatever point of its loop bulkUpsert is interrupted, after k of
\* its items, the collection is what the request found with exactly the
\* valid items among the first k applied in array order, and none of the
\* items after position k.
C20_CrashLeavesPrefix ==
  (bulk.active \/ bulk.crashed) =>
    {Entry(r) : r \in shifts}
      = Applied({Entry(r) : r \in bulk.before}, bulk.caller,
                SubSeq(bulk.items, 1, bulk.idx))

\* the process died after the second of three items: the first is applied,
\* the second was without carId, the third (another car) is absent
C20_Witness ==
  /\ bulk.crashed /\ bulk.idx = 2 /\ Len(bulk.items) = 3
  /\ ~ItemInvalid(bulk.items[1]) /\ ItemInvalid(bulk.items[2])
  /\ ~ItemInvalid(bulk.items[3])
  /\ \E r \in shifts : r.carId = bulk.items[1].carId
  /\ ~\E r \in shifts : r.carId = bulk.items[3].carId

\* C21: the read and aggregation routes (find, getById, byCar, carSummary,
\* userSummary) leave the store as it was: a step that answers one of them
\* creates, modifies and deletes no Shift document, so no derived value
\* (gross, commission, tax, costs, profit) is written into any row.
C21_ReadsLeaveStore ==
  [][(resp = NoResp /\ resp' # NoResp /\ resp'.op \in ReadOps)
       => (shifts' = shifts /\ nextId' = nextId)]_vars

\* an aggregation over a non-empty ledger was answered and the rows are
\* still the stored ones
C21_Witness ==
  /\ resp.op = "byCar"
  /\ resp.status = 200
  /\ resp.cars # {}
  /\ \E i \in 1..Len(resp.rows) : resp.rows[i] \in shifts

\* the sum of f over its domain
RECURSIVE SumF(_)
SumF(f) ==
  IF DOMAIN f = {} THEN 0
  ELSE LET x == CHOOSE x \in DOMAIN f : TRUE
       IN f[x] + SumF([y \in DOMAIN f \ {x} |-> f[y]])

\* the caller's stored rows of one car
RowsOfCar(tgId, carId) == {r \in shifts : r.tgId = tgId /\ r.carId = carId}

\* C22: byCar returns exactly one summary per distinct carId among the
\* caller's rows; for each car, days is the number of that car's rows, income,
\* gross and profit are the sums over those rows of the coerced income, of
\* profit(payload).gross and of profit(payload).profit, and lastDate is the
\* lexicographically greatest date among those rows.
C22_ByCarSummaries ==
  (resp.op = "byCar" /\ resp.status = 200) =>
    LET mine == {r \in shifts : r.tgId = resp.caller}
        ids == {r.carId : r \in mine}
    IN /\ {c.carId : c \in resp.cars} = ids
       /\ Cardinality(resp.cars) = Cardinality(ids)
       /\ \A c \in resp.cars :
            LET rows == RowsOfCar(resp.caller, c.carId)
            IN /\ c.days = Cardinality(rows)
               /\ c.income = SumF([r \in rows |-> n(Get(r.payload, "income"))])
               /\ c.gross = SumF([r \in rows |-> calcProfit(r.payload).gross])
               /\ c.profit = SumF([r \in rows |-> calcProfit(r.payload).profit])
               /\ c.lastDate \in {r.date : r \in rows}
               /\ \A r \in rows : StrLeq(r.date, c.lastDate)

\* byCar answered for a caller whose car has rows of two dates and different
\* payloads, scanned with the later date first
C22_Witness ==
  /\ resp.op = "byCar"
  /\ resp.status = 200
  /\ Len(resp.rows) = 2
  /\ resp.rows[1].date = "2024-01-02"
  /\ \E c \in resp.cars : c.days = 2 /\ c.lastDate = "2024-01-02"
                             /\ c.income = 300 * Cents /\ c.gross # c.income

\* no two documents of the collection have the same tgId
OnePerTgId(coll) == \A a, b \in coll : a.tgId = b.tgId => a = b

\* C23: after any sequence of auth and ping requests there is at most one
\* User and at most one Presence document per tgId; every successful auth
\* leaves both a User and a Presence document for the authenticated tgId,
\* every successful ping leaves a Presence document for it, and no step
\* removes the User document of a tgId.
C23_IdentityAndPresence ==
  [][/\ OnePerTgId(users') /\ OnePerTgId(presence')
     /\ \A u \in users : \E v \in users' : v.tgId = u.tgId
     /\ (resp = NoResp /\ resp'.op = "auth" /\ resp'.status = 200 /\ resp'.caller # 0)
          => /\ \E u \in users' : u.tgId = Num(resp'.caller)
             /\ \E p \in presence' : p.tgId = Num(resp'.caller)
     /\ (resp = NoResp /\ resp'.op = "ping" /\ resp'.status = 200 /\ resp'.caller # 0)
          => \E p \in presence' : p.tgId = Num(resp'.caller)]_vars

\* an identity that authenticated earlier was seen again later: its two
\* documents were found and refreshed, next to those of another identity
C23_Witness ==
  /\ resp.op = "ping"
  /\ resp.status = 200
  /\ resp.caller = 1
  /\ \E u \in users : u.tgId = Num(1) /\ u.updatedAt < clock
  /\ \E p \in presence : p.tgId = Num(1) /\ p.last_seen = clock
  /\ \E u \in users : u.tgId = Num(2)

\* the payload an item asks the store to set: payload ?? {}
PayloadSent(it) == IF it.payload = NoArg THEN {} ELSE it.payload[1]

\* items i and j of the batch were both written and name the same car and date
SameTarget(items, results, i, j) ==
  /\ results[i].ok /\ results[j].ok
  /\ items[i].carId = items[j].carId
  /\ items[i].date = items[j].date

\* C24: within one bulkUpsert call the items are applied in array order: when
\* two valid items of the batch target the same (carId, date), both report
\* the same row id, and the row ends with the payload of the later one (of
\* the last such item of the batch).
C24_BulkArrayOrder ==
  [][(bulk.active /\ resp = NoResp /\ resp'.op = "bulkUpsert" /\ resp'.status = 200)
       => \A i, j \in 1..Len(bulk.items) :
            (i < j /\ SameTarget(bulk.items, resp'.results, i, j))
              => /\ resp'.results[i].id = resp'.results[j].id
                 /\ (\A k \in (j + 1)..Len(bulk.items) :
                       ~SameTarget(bulk.items, resp'.results, j, k))
                      => \E r \in shifts' : /\ r.id = resp'.results[j].id
                                            /\ r.payload = PayloadSent(bulk.items[j])]_vars

\* a batch whose first two items name car A on the same date was answered:
\* one row, with the name of the first item and the payload of the second
C24_Witness ==
  /\ resp.op = "bulkUpsert"
  /\ resp.status = 200
  /\ Len(resp.results) = 2
  /\ resp.results[1].ok /\ resp.results[2].ok
  /\ resp.results[1].id = resp.results[2].id
  /\ \E r \in shifts : /\ r.id = resp.results[2].id
                        /\ r.carName = "Kia"
                        /\ r.payload = {<<"tips", Num(5)>>}

\* a request of any authenticated endpoint sent with launch data ld
RequestWith(ld) ==
  \/ \E lenient \in BOOLEAN, storeFails \in StoreFailures :
       Auth(ld, lenient, storeFails) \/ Ping(ld, lenient, storeFails)
  \/ \E carId \in CarIds :
       Upsert(ld, carId, "2024-01-01", Arg({<<"income", Num(100)>>}), Undef, Undef, FALSE)
  \/ \E items \in WriteBatches : BulkStart(ld, items)
  \/ \E carId \in {Undef, "A"} : Find(ld, Undef, Undef, carId, Absent)
  \/ \E id \in IdArgs : GetById(ld, id) \/ ServerGetById(ld, id)
  \/ \E id \in IdArgs, payload \in {NoArg, Arg({<<"tips", Num(5)>>})} :
       UpdateById(ld, id, payload, Undef, Undef)
         \/ ServerUpdateById(ld, id, payload, Undef, Undef)
  \/ \E id \in IdArgs : DeleteById(ld, id) \/ ServerDeleteById(ld, id)
  \/ ByCar(ld)
  \/ \E carId \in CarIds : CarSummary(ld, carId, Undef, Undef)
  \/ \E param \in SummaryParams : UserSummary(ld, param)

\* C25: a request whose launch data fails verification changes nothing: on
\* every endpoint that requires authentication (auth, ping, upsert,
\* bulkUpsert, find, getById, updateById, deleteById, byCar, carSummary,
\* userSummary) it is answered with the error verification gave, and the
\* User, Presence and Shift collections are left as they were.
C25_FailedVerifyChangesNothing ==
  [][\A ld \in {Forged, EmptyLaunchData} :
       (resp = NoResp /\ ~verifyInitData(ld, botToken, clock).ok /\ RequestWith(ld))
         => /\ resp'.status \in {401, 403}
            /\ resp'.error = verifyInitData(ld, botToken, clock).error
            /\ UNCHANGED <<shifts, nextId, users, presence>>]_vars

\* no two rows of the collection share (tgId, carId, date)
OneRowPerTriple(coll) ==
  \A a, b \in coll :
    (a.tgId = b.tgId /\ a.carId = b.carId /\ a.date = b.date) => a = b

\* a name or class of the patch that is sent and not empty
NonEmpty(v) == v \notin {Undef, Null, ""}

\* C26: a successful updateById by the owner never changes the row's id,
\* tgId, carId or date (so the triples stay unique), replaces payload only
\* when the patch supplies one, replaces carName and carClass only when the
\* patch supplies a non-empty value, always refreshes updatedAt (even for an
\* empty patch), and leaves every other row unchanged.
C26_UpdateFrame ==
  [][(resp = NoResp /\ resp'.op = "updateById" /\ resp'.status = 200) =>
     \A id \in IdArgs, p \in Patches :
       UpdateById(Good(1), id, p.payload, p.carName, p.carClass)
         => \E old \in shifts, new \in shifts' :
              /\ old.id = id /\ old.tgId = Caller(Good(1))
              /\ new.id = old.id /\ new.tgId = old.tgId
              /\ new.carId = old.carId /\ new.date = old.date
              /\ new.payload = IF p.payload = NoArg THEN old.payload
                                ELSE p.payload[1]
              /\ new.carName = IF NonEmpty(p.carName) THEN p.carName
                                ELSE old.carName
              /\ new.carClass = IF NonEmpty(p.carClass) THEN p.carClass
                                 ELSE old.carClass
              /\ new.updatedAt = clock
              /\ shifts' \ {new} = shifts \ {old}
              /\ OneRowPerTriple(shifts) => OneRowPerTriple(shifts')]_vars

\* a row written earlier, with a name, was updated later by its owner and
\* only its stamp moved, next to another row that kept its own
C26_Witness ==
  /\ resp.op = "updateById"
  /\ resp.status = 200
  /\ Len(resp.rows) = 1
  /\ resp.rows[1] \in shifts
  /\ resp.rows[1].carName = "Kia"
  /\ resp.rows[1].carClass = Null
  /\ resp.rows[1].payload = {<<"income", Num(100)>>}
  /\ resp.rows[1].updatedAt = clock
  /\ \E r \in shifts : r.id # resp.rows[1].id /\ r.updatedAt < clock

\* C27: in every userSummary response the grand total is the sum of the
\* per-car breakdown: total.days, total.income, total.gross and total.profit
\* each equal the sum of the same field over cars[], total.days is the number
\* of rows scanned, and cars[] has exactly one entry per distinct carId of
\* those rows.
C27_TotalIsSumOfCars ==
  (resp.op = "userSummary" /\ resp.status = 200) =>
    LET scanned == {resp.rows[i] : i \in 1..Len(resp.rows)}
        ids == {r.carId : r \in scanned}
    IN /\ resp.total.days = SumF([c \in resp.cars |-> c.days])
       /\ resp.total.income = SumF([c \in resp.cars |-> c.income])
       /\ resp.total.gross = SumF([c \in resp.cars |-> c.gross])
       /\ resp.total.profit = SumF([c \in resp.cars |-> c.profit])
       /\ resp.total.days = Len(resp.rows)
       /\ {c.carId : c \in resp.cars} = ids
       /\ Cardinality(resp.cars) = Cardinality(ids)

====
